---- MODULE Spec2Model ----
(***************************************************************************)
(* Filter subscription and update orchestrator of AdGuard for Safari:      *)
(* the filters manager (src/unnamed/part_001) and the filters update       *)
(* service (src/unnamed/part_002).                                         *)
(*                                                                         *)
(* JavaScript runs every handler to completion, so one action is one       *)
(* handler: an API call, the completion of a network request, a timer.     *)
(* Handlers are written as transformers of the record S of everything a    *)
(* handler can mutate; an action applies one to Cur and commits the result.*)
(***************************************************************************)
EXTENDS Integers, Sequences, FiniteSets, TLC

\* ------------------------------------------------------------------ bounds

\* API calls (addAndEnableFilters, disableFilters, removeFilter) in one behaviour
MaxOps == 2
\* checkAntiBannerFiltersUpdate invocations in one behaviour
MaxChecks == 1
\* minutes the clock advances in one behaviour
MaxTicks == 1

\* ------------------------------------------------------------ the universe

\* config AntiBannerFiltersId.SEARCH_AND_SELF_PROMO_FILTER_ID: the second
\* built-in filter of the model is the search and self-promotion filter
SEARCH_AND_SELF_PROMO_FILTER_ID == 2
\* config AntiBannerFilterGroupsId.CUSTOM_FILTERS_GROUP_ID
CUSTOM_FILTERS_GROUP_ID == 0

\* the filter ids of the model: two built-in filters and two custom ones
BuiltinIds == {1, 2}
CustomIds == {3, 4}
Ids == BuiltinIds \cup CustomIds
\* the groups: the group of the custom filters and the group of the built-in ones
GroupIds == {CUSTOM_FILTERS_GROUP_ID, 1}
\* a flag that may be unset is "undefined", "true" or "false"
Undefined == "undefined"
True == "true"
False == "false"
Tri(b) == IF b THEN True ELSE False
\* a timestamp that was never set
NoTime == 0 - 1
\* the server's timeUpdated of a version: the time the version was published
TimeUpdatedOf(version) == IF version = <<>> THEN NoTime ELSE 10 * version[1] + version[2]
\* filters.json as shipped
NoSnapshot == <<>>
\* no removeObsoleteFilters call was made
NoCleanup == [stage |-> "idle", local |-> {}, remote |-> {}]

Occurs(seq, x) == \E i \in 1..Len(seq) : seq[i] = x
\* the id lists handed to addAndEnableFilters and to disableFilters
EnableLists == {<<>>, <<1>>, <<2>>, <<1, 2>>, <<2, 1>>, <<1, 1, 2>>}
DisableLists == {<<1>>, <<2>>, <<1, 2>>, <<2, 1>>, <<1, 1, 2>>}

VARIABLES
    cache,        \* ids the registry (filters cache) holds an object for
    filter,       \* the filter objects, by the id they were registered under
    groups,       \* group.enabled per group: Undefined, True or False
    stateInfo,    \* persisted filters state: enabled flag per id, or Undefined
    events,       \* what notifyListeners published about each filter, in order
    groupEvents,  \* what notifyListeners published about each group, in order
    inflight,     \* rule downloads that have not called back yet
    chains,       \* the addAndEnableFilters calls: ids left, ids started
    thrown,       \* exceptions that escaped a handler, in order
    lastCall,     \* the last enableFilter / disableFilters call and what it did
    ops,          \* API calls made so far
    now,          \* Date.now(), in minutes
    period,       \* settings.getUpdateFiltersPeriod(), in hours
    store,        \* storage item filters-update-last-check
    checks,       \* the checkAntiBannerFiltersUpdate invocations
    metaReqs,     \* metadata requests that have not called back yet
    customReqs,   \* custom filter updates that have not called back yet
    selected,     \* what the last selectFilterIdsToUpdate call returned
    timers,       \* the timeouts that are set and have not fired
    filterAutoupdateTimer,  \* the handle of the autoupdate timer, 0 when unset
    logged,       \* the errors log.error has reported
    snapshot,     \* the metadata written to filters.json
    cleanup       \* how far the removeObsoleteFilters call has come

vars == <<cache, filter, groups, stateInfo, events, groupEvents, inflight, chains, thrown,
          lastCall, ops, now, period, store, checks, metaReqs, customReqs, selected,
          timers, filterAutoupdateTimer, logged, snapshot, cleanup>>
lifecycleVars == <<cache, filter, groups, stateInfo, events, groupEvents, inflight, chains,
                   thrown, lastCall, ops, snapshot, cleanup>>

\* Everything a handler can mutate.
Cur ==
    [cache |-> cache, filter |-> filter, groups |-> groups, stateInfo |-> stateInfo,
     events |-> events, groupEvents |-> groupEvents, inflight |-> inflight,
     chains |-> chains, thrown |-> thrown, lastCall |-> lastCall, store |-> store,
     checks |-> checks, metaReqs |-> metaReqs, customReqs |-> customReqs,
     timers |-> timers, filterAutoupdateTimer |-> filterAutoupdateTimer, logged |-> logged,
     snapshot |-> snapshot, cleanup |-> cleanup]

Commit(S) ==
    /\ cache' = S.cache
    /\ filter' = S.filter
    /\ groups' = S.groups
    /\ stateInfo' = S.stateInfo
    /\ events' = S.events
    /\ groupEvents' = S.groupEvents
    /\ inflight' = S.inflight
    /\ chains' = S.chains
    /\ thrown' = S.thrown
    /\ lastCall' = S.lastCall
    /\ store' = S.store
    /\ checks' = S.checks
    /\ metaReqs' = S.metaReqs
    /\ customReqs' = S.customReqs
    /\ timers' = S.timers
    /\ filterAutoupdateTimer' = S.filterAutoupdateTimer
    /\ logged' = S.logged
    /\ snapshot' = S.snapshot
    /\ cleanup' = S.cleanup

\* ------------------------------------------------------------ collaborators

\* collections.removeDuplicates: keeps the first occurrence of each element
RECURSIVE removeDuplicates(_)
removeDuplicates(arr) ==
    IF arr = <<>> THEN <<>>
    ELSE LET init == removeDuplicates(SubSeq(arr, 1, Len(arr) - 1))
             last == arr[Len(arr)]
         IN IF \E i \in 1..Len(init) : init[i] = last THEN init ELSE Append(init, last)

\* filters-state: the persisted state follows the events that carry a filter
notifyListeners(S, kind, id) ==
    LET S1 == [S EXCEPT !.events[id] = Append(@, kind)]
    IN IF kind \in {"filter-enable-disable", "filter-add-remove", "success-download"}
       THEN [S1 EXCEPT !.stateInfo[id] = Tri(S.filter[id].enabled)]
       ELSE S1

\* subscriptions.groupHasEnabledStatus: the group was enabled or disabled once
groupHasEnabledStatus(S, groupId) == S.groups[groupId] # Undefined

\* an exception leaves the handler: nothing after the throw runs
Throw(S, what, id) == [S EXCEPT !.thrown = Append(@, [what |-> what, id |-> id])]

Threw(S0, S1) == Len(S1.thrown) > Len(S0.thrown)

RECURSIVE SumOver(_, _)
SumOver(f, set) ==
    IF set = {} THEN 0
    ELSE LET x == CHOOSE y \in set : TRUE IN f[x] + SumOver(f, set \ {x})
\* how many events were published so far
Published(S) ==
    SumOver([id \in Ids |-> Len(S.events[id])], Ids)
        + SumOver([g \in GroupIds |-> Len(S.groupEvents[g])], GroupIds)

\* what a call of enableFilter or disableFilters did, for the record
Called(S0, S1, op, ids) ==
    [S1 EXCEPT !.lastCall = [op |-> op, single |-> Len(ids) = 1,
                             absent |-> \A i \in 1..Len(ids) : ids[i] \notin S0.cache,
                             published |-> Published(S1) - Published(S0),
                             threw |-> Threw(S0, S1)]]

\* ------------------------------------------------- filters manager (part_001)

enableGroup(S, groupId) ==
    IF groupId \notin GroupIds \/ S.groups[groupId] = True THEN S
    ELSE LET S1 == [S EXCEPT !.groups[groupId] = True]
         IN [S1 EXCEPT !.groupEvents[groupId] = Append(@, "filter-group-enable-disable")]

\* a faulty variant: disableGroup without the test of the flag
disableGroupUntested(S, groupId) ==
    IF groupId \notin GroupIds THEN S
    ELSE LET S1 == [S EXCEPT !.groups[groupId] = False]
         IN [S1 EXCEPT !.groupEvents[groupId] = Append(@, "filter-group-enable-disable")]

disableGroup(S, groupId) ==
    IF groupId \notin GroupIds \/ S.groups[groupId] # True THEN S
    ELSE LET S1 == [S EXCEPT !.groups[groupId] = False]
         IN [S1 EXCEPT !.groupEvents[groupId] = Append(@, "filter-group-enable-disable")]

\* what a call of enableGroup or disableGroup did, for the record
CalledGroup(S0, S1, op, groupId) ==
    [S1 EXCEPT !.lastCall = [op |-> op, single |-> TRUE,
                             absent |-> groupId \notin GroupIds,
                             published |-> Published(S1) - Published(S0),
                             threw |-> Threw(S0, S1)]]

\* a faulty variant: the test is for a persisted state, whatever its flag
isFilterEnabledAnyState(S, filterId) ==
    /\ filterId \in S.cache
    /\ S.stateInfo[filterId] # Undefined

isFilterEnabled(S, filterId) ==
    /\ filterId \in S.cache
    /\ S.stateInfo[filterId] # Undefined
    /\ S.stateInfo[filterId] = True

\* a faulty variant: enabling a filter enables its group whatever the group's flag
enableFilterBodyGroupAlways(S, filterId) ==
    IF filterId \notin S.cache THEN Throw(S, "enableFilter", filterId)
    ELSE LET S1 == [S EXCEPT !.filter[filterId].enabled = TRUE]
             S2 == enableGroup(S1, S1.filter[filterId].groupId)
         IN notifyListeners(S2, "filter-enable-disable", filterId)

\* cache.getFilter gives undefined for an id the registry does not hold, and
\* the assignment filter.enabled = true then throws a TypeError
enableFilterBody(S, filterId) ==
    IF filterId \notin S.cache THEN Throw(S, "enableFilter", filterId)
    ELSE LET S1 == [S EXCEPT !.filter[filterId].enabled = TRUE]
             groupId == S1.filter[filterId].groupId
             S2 == IF ~groupHasEnabledStatus(S1, groupId) THEN enableGroup(S1, groupId)
                   ELSE IF \/ filterId = SEARCH_AND_SELF_PROMO_FILTER_ID
                           \/ groupId = CUSTOM_FILTERS_GROUP_ID
                        THEN enableGroup(S1, groupId)
                        ELSE S1
         IN notifyListeners(S2, "filter-enable-disable", filterId)

enableFilter(S, filterId) == Called(S, enableFilterBody(S, filterId), "enableFilter", <<filterId>>)

\* a faulty variant: a filter that is not enabled is passed over and the loop goes on
RECURSIVE disableFiltersFromPassingOver(_, _, _)
disableFiltersFromPassingOver(S, filterIds, i) ==
    IF i > Len(filterIds) THEN S
    ELSE IF ~isFilterEnabled(S, filterIds[i])
         THEN disableFiltersFromPassingOver(S, filterIds, i + 1)
    ELSE LET S1 == [S EXCEPT !.filter[filterIds[i]].enabled = FALSE]
         IN disableFiltersFromPassingOver(
                notifyListeners(S1, "filter-enable-disable", filterIds[i]), filterIds, i + 1)

RECURSIVE disableFiltersFrom(_, _, _)
disableFiltersFrom(S, filterIds, i) ==
    IF i > Len(filterIds) THEN S
    ELSE IF ~isFilterEnabled(S, filterIds[i]) THEN S
    ELSE LET S1 == [S EXCEPT !.filter[filterIds[i]].enabled = FALSE]
         IN disableFiltersFrom(notifyListeners(S1, "filter-enable-disable", filterIds[i]),
                               filterIds, i + 1)

disableFilters(S, filterIds) ==
    Called(S, disableFiltersFrom(S, removeDuplicates(filterIds), 1), "disableFilters", filterIds)

\* customFilters.removeCustomFilter: the custom filter leaves the registry
removeCustomFilter(S, filterId) == [S EXCEPT !.cache = @ \ {filterId}]

removeFilter(S, filterId) ==
    IF filterId \notin S.cache THEN S
    ELSE LET S1 == [S EXCEPT !.filter[filterId].enabled = FALSE,
                             !.filter[filterId].installed = FALSE]
             S2 == notifyListeners(S1, "filter-enable-disable", filterId)
             S3 == notifyListeners(S2, "filter-add-remove", filterId)
         IN IF S3.filter[filterId].customUrl THEN removeCustomFilter(S3, filterId)
            ELSE [S3 EXCEPT !.cache = @ \ {filterId}]

\* filtersState.removeFilter: the persisted state of the filter is deleted
filtersStateRemoveFilter(S, filterId) == [S EXCEPT !.stateInfo[filterId] = Undefined]

\* updateFiltersJson: filters.json now holds the text of metaData
updateFiltersJson(S, metaData) == [S EXCEPT !.snapshot = <<metaData>>]

\* no remote filter has the id and the name of the local filter
isObsolete(localFilter, remoteMetadata) ==
    ~\E remoteFilter \in remoteMetadata :
        /\ remoteFilter.filterId = localFilter.filterId
        /\ remoteFilter.name = localFilter.name

\* obsoleteFiltersMetadata.forEach, in the order of the ids
RECURSIVE removeEachObsolete(_, _)
removeEachObsolete(S, obsolete) ==
    IF obsolete = {} THEN S
    ELSE LET f == CHOOSE f \in obsolete : \A g \in obsolete : f.filterId <= g.filterId
         IN removeEachObsolete(removeFilter(filtersStateRemoveFilter(S, f.filterId), f.filterId),
                               obsolete \ {f})

\* removeObsoleteFilters asks for the local metadata, then for the remote
\* metadata, and works when the second answer is there
removeObsoleteFilters(S) == [S EXCEPT !.cleanup = [NoCleanup EXCEPT !.stage = "local"]]

onLocalFiltersMetadata(S, localMetadata) ==
    [S EXCEPT !.cleanup = [NoCleanup EXCEPT !.stage = "remote", !.local = localMetadata]]

onRemoteFiltersMetadata(S, remoteMetadata) ==
    LET S1 == updateFiltersJson(S, remoteMetadata)
        obsolete == {f \in S.cleanup.local : isObsolete(f, remoteMetadata)}
    IN [removeEachObsolete(S1, obsolete)
           EXCEPT !.cleanup = [stage |-> "done", local |-> S.cleanup.local,
                               remote |-> remoteMetadata]]

\* -------------------------------------------- rule downloads (part_002, 251-288)

\* filterMetadata is either the filter object itself (an install) or a record
\* of the metadata the server sent (an update)
SelfMeta == [self |-> TRUE, version |-> <<>>, timeUpdated |-> NoTime]

\* a check writes to the storage or makes a network request
Io(S, what, k, id, remote) ==
    [S EXCEPT !.checks[k].io =
        Append(@, [what |-> what, id |-> id, remote |-> remote,
                   local |-> IF id \in Ids THEN S.filter[id].version ELSE <<>>])]

loadFilterRules(S, filterId, meta, kind, cont) ==
    IF filterId \notin S.cache THEN Throw(S, "loadFilterRules", filterId)
    ELSE LET S1 == [S EXCEPT !.filter[filterId].isDownloading = TRUE]
             S2 == notifyListeners(S1, "start-download", filterId)
             S3 == IF kind = "update" THEN Io(S2, "load-rules", cont, filterId, meta.version)
                   ELSE S2
         IN [S3 EXCEPT !.inflight = @ \cup {[id |-> filterId, meta |-> meta,
                                              kind |-> kind, cont |-> cont]}]

\* a faulty variant: the success callback leaves lastUpdateTime as it was
downloadSucceededOldTime(S, r, t) ==
    LET S1 == [S EXCEPT !.inflight = @ \ {r},
                        !.filter[r.id].isDownloading = FALSE,
                        !.filter[r.id].version = IF r.meta.self THEN @ ELSE r.meta.version,
                        !.filter[r.id].lastCheckTime = t,
                        !.filter[r.id].loaded = TRUE]
        S2 == notifyListeners(S1, "success-download", r.id)
    IN notifyListeners(S2, "update-filter-rules", r.id)

\* successCallback up to its call of callback(true)
downloadSucceeded(S, r, t) ==
    LET S1 == [S EXCEPT !.inflight = @ \ {r},
                        !.filter[r.id].isDownloading = FALSE,
                        !.filter[r.id].version = IF r.meta.self THEN @ ELSE r.meta.version,
                        !.filter[r.id].lastUpdateTime =
                            IF r.meta.self THEN @ ELSE r.meta.timeUpdated,
                        !.filter[r.id].lastCheckTime = t,
                        !.filter[r.id].loaded = TRUE]
        S2 == notifyListeners(S1, "success-download", r.id)
    IN notifyListeners(S2, "update-filter-rules", r.id)

\* errorCallback up to its call of callback(false)
downloadFailed(S, r) ==
    LET S1 == [S EXCEPT !.inflight = @ \ {r},
                        !.filter[r.id].isDownloading = FALSE]
    IN notifyListeners(S1, "error-download", r.id)

\* ----------------------------------- install and enable (part_001, 198-250)

ChainLog(S, c, what, id, ok) ==
    [S EXCEPT !.chains[c].log = Append(@, [what |-> what, id |-> id, ok |-> ok,
                                            at |-> [x \in Ids |-> Len(S.events[x])]])]

\* an exception raised under a chain's callback ends the chain where it is
ChainEnds(S0, S1, c) ==
    IF Threw(S0, S1) /\ S1.chains[c].status = "running"
    THEN [S1 EXCEPT !.chains[c].status = "threw"]
    ELSE S1

RECURSIVE loadNextFilter(_, _)
RECURSIVE addAntiBannerFilter(_, _, _)
RECURSIVE onFilterLoaded(_, _, _, _)
RECURSIVE chainCallback(_, _, _, _)

\* a faulty variant: the installed flag is not set when the rules have loaded
onFilterLoadedNoFlag(S, filterId, c, success) ==
    LET S1 == IF success THEN notifyListeners(S, "filter-add-remove", filterId) ELSE S
    IN chainCallback(S1, c, filterId, success)

\* a faulty variant: the next filter is taken up as soon as the install of this one was
\* started, not from its callback
loadNextFilterNoWait(S, c) ==
    IF S.chains[c].queue = <<>> THEN [S EXCEPT !.chains[c].status = "done"]
    ELSE LET filterId == Head(S.chains[c].queue)
             S1 == addAntiBannerFilter([S EXCEPT !.chains[c].queue = Tail(@)], filterId, c)
         IN IF S1.chains[c].status = "running" /\ S1.chains[c].queue # <<>>
            THEN loadNextFilter(S1, c)
            ELSE S1

\* the callback addAndEnableFilters hands to addAntiBannerFilter
chainCallback(S, c, filterId, success) ==
    LET S0 == ChainLog(S, c, "callback", filterId, success)
        S1 == IF success THEN enableFilter(S0, filterId) ELSE S0
    IN IF Threw(S0, S1) THEN ChainEnds(S0, S1, c) ELSE loadNextFilter(S1, c)

onFilterLoaded(S, filterId, c, success) ==
    LET S1 == IF success
              THEN notifyListeners([S EXCEPT !.filter[filterId].installed = TRUE],
                                   "filter-add-remove", filterId)
              ELSE S
    IN chainCallback(S1, c, filterId, success)

addAntiBannerFilter(S, filterId, c) ==
    LET S0 == ChainLog(S, c, "add", filterId, TRUE)
    IN IF filterId \notin S0.cache THEN ChainEnds(S0, Throw(S0, "getFilterById", filterId), c)
       ELSE IF S0.filter[filterId].installed THEN chainCallback(S0, c, filterId, TRUE)
       ELSE IF S0.filter[filterId].loaded THEN onFilterLoaded(S0, filterId, c, TRUE)
       ELSE loadFilterRules(S0, filterId, SelfMeta, "install", c)

loadNextFilter(S, c) ==
    IF S.chains[c].queue = <<>> THEN [S EXCEPT !.chains[c].status = "done"]
    ELSE LET filterId == Head(S.chains[c].queue)
         IN addAntiBannerFilter([S EXCEPT !.chains[c].queue = Tail(@)], filterId, c)

addAndEnableFilters(S, c, filterIds) ==
    IF Len(filterIds) = 0
    THEN [S EXCEPT !.chains[c] = [given |-> filterIds, queue |-> <<>>, log |-> <<>>,
                                  status |-> "done"]]
    ELSE loadNextFilter([S EXCEPT !.chains[c] = [given |-> filterIds,
                                                 queue |-> removeDuplicates(filterIds),
                                                 log |-> <<>>, status |-> "running"]], c)

\* ----------------------------------------- filters groups (part_001, 351-367)

\* a faulty variant: the recommended filters are added on every call
enableFiltersGroupEveryTime(S, c, groupId, recommendedFiltersIds) ==
    LET S1 == IF groupId \in GroupIds
              THEN addAndEnableFilters(S, c, recommendedFiltersIds)
              ELSE S
    IN IF Threw(S, S1) THEN S1 ELSE enableGroup(S1, groupId)

\* recommendedFiltersIds is what categories.getRecommendedFilterIdsByGroupId
\* gives for the group; an exception of addAndEnableFilters leaves the function
enableFiltersGroup(S, c, groupId, recommendedFiltersIds) ==
    LET S1 == IF groupId \in GroupIds /\ S.groups[groupId] = Undefined
              THEN addAndEnableFilters(S, c, recommendedFiltersIds)
              ELSE S
    IN IF Threw(S, S1) THEN S1 ELSE enableGroup(S1, groupId)

disableFiltersGroup(S, groupId) == disableGroup(S, groupId)

\* ----------------------------------------------------- the lifecycle machine

NoCall == [op |-> "none", single |-> FALSE, absent |-> FALSE, published |-> 0, threw |-> FALSE]
NoChain == [given |-> <<>>, queue |-> <<>>, log |-> <<>>, status |-> "unused"]

\* what a filter can be when the application has started
Fresh(g) ==
    [enabled |-> FALSE, installed |-> FALSE, loaded |-> FALSE, isDownloading |-> FALSE,
     version |-> <<1, 1>>, lastUpdateTime |-> TimeUpdatedOf(<<1, 1>>),
     lastCheckTime |-> NoTime, customUrl |-> FALSE, groupId |-> g]
Custom == [Fresh(CUSTOM_FILTERS_GROUP_ID) EXCEPT !.customUrl = TRUE]
NoCheck ==
    [used |-> FALSE, forceUpdate |-> FALSE, currentDate |-> NoTime, customIds |-> <<>>,
     subset |-> <<>>, metaFailed |-> FALSE,
     batched |-> FALSE, batch |-> <<>>, pending |-> {}, failed |-> {}, rejected |-> FALSE,
     loaded |-> <<>>, reports |-> <<>>, updated |-> <<>>, io |-> <<>>, popups |-> <<>>,
     customStarted |-> FALSE, customPending |-> {}, customOk |-> <<>>, customFailed |-> {},
     customReports |-> <<>>, loadedAtFailure |-> <<>>]
NoSelection ==
    [called |-> FALSE, forceUpdate |-> FALSE, given |-> FALSE, list |-> <<>>,
     filterIds |-> <<>>, customFilterIds |-> <<>>]
\* the update service at rest
UpdateIdle ==
    /\ store = NoTime
    /\ checks = <<>>
    /\ metaReqs = {}
    /\ customReqs = {}
    /\ timers = {}
    /\ filterAutoupdateTimer = 0
    /\ logged = {}
    /\ snapshot = NoSnapshot
    /\ cleanup = NoCleanup
    /\ selected = NoSelection
updateVars == <<store, checks, metaReqs, customReqs, selected, timers, filterAutoupdateTimer,
                logged>>
StartProfiles(g) ==
    { Fresh(g),
      [Fresh(g) EXCEPT !.loaded = TRUE],
      [Fresh(g) EXCEPT !.loaded = TRUE, !.installed = TRUE, !.enabled = TRUE] }

Init ==
    /\ cache \in {{1}, {1, 2}}
    /\ filter \in {f \in [Ids -> StartProfiles(1) \cup {Custom}] :
                      /\ \A id \in CustomIds : f[id] = Custom
                      /\ \A id \in BuiltinIds : f[id] # Custom
                      /\ f[2].installed = f[2].loaded
                      /\ 2 \notin cache => f[2] = Fresh(1)}
    /\ groups = [g \in GroupIds |-> Undefined]
    /\ stateInfo = [id \in Ids |-> IF filter[id].installed THEN Tri(filter[id].enabled)
                                   ELSE Undefined]
    /\ events = [id \in Ids |-> <<>>]
    /\ groupEvents = [g \in GroupIds |-> <<>>]
    /\ inflight = {}
    /\ chains = [c \in 1..MaxOps |-> NoChain]
    /\ thrown = <<>>
    /\ lastCall = NoCall
    /\ ops = 0
    /\ now = 100
    /\ period = 1
    /\ UpdateIdle

AddAndEnableFilters(c, filterIds) ==
    /\ ops < MaxOps
    /\ ops' = ops + 1
    /\ chains[c].status = "unused"
    /\ \A d \in 1..(c - 1) : chains[d].status # "unused"
    /\ Commit(addAndEnableFilters(Cur, c, filterIds))
    /\ UNCHANGED <<now, period, selected>>

DisableFilters(filterIds) ==
    /\ ops < MaxOps
    /\ ops' = ops + 1
    /\ Commit(disableFilters(Cur, filterIds))
    /\ UNCHANGED <<now, period, selected>>

RemoveFilter(filterId) ==
    /\ ops < MaxOps
    /\ ops' = ops + 1
    /\ Commit(removeFilter(Cur, filterId))
    /\ UNCHANGED <<now, period, selected>>

\* the download of an install calls back
InstallSuccess(r) ==
    /\ r.kind = "install"
    /\ Commit(onFilterLoaded(downloadSucceeded(Cur, r, now), r.id, r.cont, TRUE))
    /\ UNCHANGED <<ops, now, period, selected>>

InstallError(r) ==
    /\ r.kind = "install"
    /\ Commit(onFilterLoaded(downloadFailed(Cur, r), r.id, r.cont, FALSE))
    /\ UNCHANGED <<ops, now, period, selected>>

Next ==
    \/ \E c \in 1..MaxOps, filterIds \in EnableLists : AddAndEnableFilters(c, filterIds)
    \/ \E filterIds \in DisableLists : DisableFilters(filterIds)
    \/ \E filterId \in BuiltinIds : RemoveFilter(filterId)
    \/ \E r \in inflight : InstallSuccess(r)
    \/ \E r \in inflight : InstallError(r)

Spec == Init /\ [][Next]_vars

\* ============================================ filters update service (part_002)

\* minutes in an hour: the period setting is in hours, the clock in minutes
MinutesPerHour == 60
\* ENABLED_FILTERS_SKIP_TIMEOUT, in minutes
ENABLED_FILTERS_SKIP_TIMEOUT == 5

NoVersion == <<>>
\* versionUtils: a version is its dot-separated numbers, a missing one counts 0
VersionPart(v, i) == IF i <= Len(v) THEN v[i] ELSE 0
RECURSIVE compareVersions(_, _, _)
compareVersions(l, r, i) ==
    IF i > 4 THEN 0
    ELSE IF VersionPart(l, i) > VersionPart(r, i) THEN 1
    ELSE IF VersionPart(l, i) < VersionPart(r, i) THEN 0 - 1
    ELSE compareVersions(l, r, i + 1)
isGreaterVersion(l, r) == compareVersions(l, r, 1) > 0

\* cache.getFilters / customFilters.loadCustomFilters: the filters by ascending id
RECURSIVE SortedSeq(_)
SortedSeq(set) ==
    IF set = {} THEN <<>>
    ELSE LET m == CHOOSE x \in set : \A y \in set : x <= y
         IN <<m>> \o SortedSeq(set \ {m})
getFilters(S) == SortedSeq(S.cache)
loadCustomFilters(S) == SortedSeq({id \in S.cache : S.filter[id].customUrl})

\* filtersToUpdate is undefined or an array of filters
AllFilters == [given |-> FALSE, list |-> <<>>]
Only(list) == [given |-> TRUE, list |-> list]

\* a faulty variant: a filter is due only after more than the period
needUpdateLater(f, forceUpdate, t, updateFiltersPeriodInMs) ==
    \/ forceUpdate
    \/ f.lastCheckTime = NoTime
    \/ f.lastCheckTime = 0
    \/ (t - f.lastCheckTime) > updateFiltersPeriodInMs

\* !filter.lastCheckTime || (Date.now() - filter.lastCheckTime) >= period
\* a faulty variant: a period that is not positive makes no checked filter due
needUpdateWithPeriod(f, forceUpdate, t, updateFiltersPeriodInMs) ==
    \/ forceUpdate
    \/ f.lastCheckTime = NoTime
    \/ f.lastCheckTime = 0
    \/ /\ updateFiltersPeriodInMs > 0
       /\ (t - f.lastCheckTime) >= updateFiltersPeriodInMs

needUpdate(f, forceUpdate, t, updateFiltersPeriodInMs) ==
    \/ forceUpdate
    \/ f.lastCheckTime = NoTime
    \/ f.lastCheckTime = 0
    \/ (t - f.lastCheckTime) >= updateFiltersPeriodInMs

selectFilterIdsToUpdate(S, forceUpdate, filtersToUpdate, t, hours) ==
    LET customFilterIds ==
            SelectSeq(loadCustomFilters(S),
                      LAMBDA id : /\ (~filtersToUpdate.given \/ Occurs(filtersToUpdate.list, id))
                                  /\ S.filter[id].enabled)
        filters == IF filtersToUpdate.given THEN filtersToUpdate.list ELSE getFilters(S)
        updateFiltersPeriodInMs == hours * MinutesPerHour
        filterIds ==
            SelectSeq(filters,
                      LAMBDA id : /\ S.filter[id].installed /\ S.filter[id].enabled
                                  /\ needUpdate(S.filter[id], forceUpdate, t, updateFiltersPeriodInMs)
                                  /\ ~S.filter[id].customUrl)
    IN [filterIds |-> filterIds, customFilterIds |-> customFilterIds]

\* listeners.notifyListeners(events.UPDATE_FILTERS_SHOW_POPUP, ...)
showPopup(S, k, success, updatedFilters) ==
    [S EXCEPT !.checks[k].popups =
        Append(@, [success |-> success, updatedFilters |-> updatedFilters,
                   forceUpdate |-> S.checks[k].forceUpdate,
                   filtersUpdateLastCheck |-> S.checks[k].currentDate])]
onSuccess(S, k, updatedFilters) == showPopup(S, k, TRUE, updatedFilters)
onError(S, k) == showPopup(S, k, FALSE, <<>>)

\* the callback of updateCustomFilters in a check
customCallback(S, k, customFilters) ==
    onSuccess([S EXCEPT !.checks[k].customReports = Append(@, customFilters)],
              k, S.checks[k].updated \o customFilters)

RECURSIVE updateCustomFiltersFrom(_, _, _, _)
updateCustomFiltersFrom(S, k, customFilterIds, i) ==
    IF i > Len(customFilterIds) THEN S
    ELSE LET id == customFilterIds[i]
             S1 == Io(S, "update-custom", k, id, NoVersion)
             S2 == [S1 EXCEPT !.customReqs = @ \cup {[id |-> id, k |-> k]},
                              !.checks[k].customPending = @ \cup {id}]
             S3 == notifyListeners(S2, "filter-add-remove", id)
         IN updateCustomFiltersFrom(S3, k, customFilterIds, i + 1)

updateCustomFilters(S, k, customFilterIds) ==
    LET S1 == [S EXCEPT !.checks[k].customStarted = TRUE]
    IN IF Len(customFilterIds) = 0 THEN customCallback(S1, k, <<>>)
       ELSE updateCustomFiltersFrom(S1, k, customFilterIds, 1)

\* a faulty variant: a failed update rejects its promise, and Promise.all with it
customUpdatedRejecting(S, q, ok) ==
    LET k == q.k
        S1 == [S EXCEPT !.customReqs = @ \ {q},
                        !.checks[k].customPending = IF ok THEN @ \ {q.id} ELSE @,
                        !.checks[k].customOk = IF ok THEN Append(@, q.id) ELSE @,
                        !.checks[k].customFailed = IF ok THEN @ ELSE @ \cup {q.id}]
    IN IF ok /\ S1.checks[k].customPending = {}
       THEN customCallback(S1, k, S1.checks[k].customOk)
       ELSE S1

\* customFilters.updateCustomFilter calls back, with the filter id or without
customUpdated(S, q, ok) ==
    LET k == q.k
        S1 == [S EXCEPT !.customReqs = @ \ {q},
                        !.checks[k].customPending = @ \ {q.id},
                        !.checks[k].customOk = IF ok THEN Append(@, q.id) ELSE @,
                        !.checks[k].customFailed = IF ok THEN @ ELSE @ \cup {q.id}]
    IN IF S1.checks[k].customPending = {} THEN customCallback(S1, k, S1.checks[k].customOk)
       ELSE S1

\* the callback loadFiltersFromBackendCallback hands to loadFiltersFromBackend
\* a faulty variant: the custom filters are updated after a failed batch too
batchCallbackCustomAnyway(S, k, success, filterIds) ==
    LET S1 == [S EXCEPT !.checks[k].reports = Append(@, [success |-> success, ids |-> filterIds])]
        filters == SelectSeq(filterIds, LAMBDA id : id \in S1.cache)
        S2 == IF success THEN S1 ELSE onError(S1, k)
    IN updateCustomFilters([S2 EXCEPT !.checks[k].updated = filters], k, S2.checks[k].customIds)

batchCallback(S, k, success, filterIds) ==
    LET S1 == [S EXCEPT !.checks[k].reports = Append(@, [success |-> success, ids |-> filterIds])]
    IN IF success
       THEN LET filters == SelectSeq(filterIds, LAMBDA id : id \in S1.cache)
            IN updateCustomFilters([S1 EXCEPT !.checks[k].updated = filters], k,
                                   S1.checks[k].customIds)
       ELSE onError(S1, k)

RECURSIVE loadFiltersFrom(_, _, _, _)
loadFiltersFrom(S, k, filterMetadataList, i) ==
    IF i > Len(filterMetadataList) THEN S
    ELSE LET m == filterMetadataList[i]
             S1 == loadFilterRules(S, m.id, [self |-> FALSE, version |-> m.version,
                                             timeUpdated |-> m.timeUpdated], "update", k)
         IN loadFiltersFrom([S1 EXCEPT !.checks[k].pending = @ \cup {m.id}],
                            k, filterMetadataList, i + 1)

\* Promise.all of no promise is fulfilled at once
loadFiltersFromBackend(S, k, filterMetadataList) ==
    LET S1 == loadFiltersFrom([S EXCEPT !.checks[k].batch = filterMetadataList,
                                        !.checks[k].batched = TRUE],
                              k, filterMetadataList, 1)
    IN IF Len(filterMetadataList) = 0 THEN batchCallback(S1, k, TRUE, <<>>) ELSE S1

\* a faulty variant: every failed download reports the failure of the batch
batchMemberDoneEachFailure(S, k, id, success) ==
    IF ~success
    THEN batchCallback([S EXCEPT !.checks[k].failed = @ \cup {id},
                                 !.checks[k].pending = @ \ {id},
                                 !.checks[k].rejected = TRUE], k, FALSE, <<>>)
    ELSE LET S1 == [S EXCEPT !.checks[k].loaded = Append(@, id),
                             !.checks[k].pending = @ \ {id}]
         IN IF S1.checks[k].pending = {} /\ ~S1.checks[k].rejected
            THEN batchCallback(S1, k, TRUE, S1.checks[k].loaded)
            ELSE S1

\* one download of a batch called back: its promise is settled, and Promise.all
\* with it when it was the last to succeed or the first to fail
\* a faulty variant: a failure is reported only when every download has settled
batchMemberDoneSettled(S, k, id, success) ==
    LET S1 == [S EXCEPT !.checks[k].failed = IF success THEN @ ELSE @ \cup {id},
                        !.checks[k].loaded = IF success THEN Append(@, id) ELSE @,
                        !.checks[k].pending = @ \ {id}]
    IN IF S1.checks[k].pending # {} THEN S1
       ELSE IF S1.checks[k].failed = {} THEN batchCallback(S1, k, TRUE, S1.checks[k].loaded)
       ELSE batchCallback([S1 EXCEPT !.checks[k].rejected = TRUE,
                                     !.checks[k].loadedAtFailure = S1.checks[k].loaded],
                          k, FALSE, <<>>)

\* loadedAtFailure is what loadedFilters holds when callback(false) runs
batchMemberDone(S, k, id, success) ==
    IF ~success
    THEN LET S1 == [S EXCEPT !.checks[k].failed = @ \cup {id},
                             !.checks[k].pending = @ \ {id}]
         IN IF S.checks[k].rejected THEN S1
            ELSE batchCallback([S1 EXCEPT !.checks[k].rejected = TRUE,
                                          !.checks[k].loadedAtFailure = S.checks[k].loaded],
                               k, FALSE, <<>>)
    ELSE LET S1 == [S EXCEPT !.checks[k].loaded = Append(@, id),
                             !.checks[k].pending = @ \ {id}]
         IN IF S1.checks[k].pending = {} /\ ~S1.checks[k].rejected
            THEN batchCallback(S1, k, TRUE, S1.checks[k].loaded)
            ELSE S1

\* a faulty variant: a version that is not older counts as new
hasNewVersionOrSame(S, m) ==
    /\ m.id \in S.cache
    /\ m.version # NoVersion
    /\ ~isGreaterVersion(S.filter[m.id].version, m.version)

\* the version test of onLoadFilterMetadataList
hasNewVersion(S, m) ==
    /\ m.id \in S.cache
    /\ m.version # NoVersion
    /\ isGreaterVersion(m.version, S.filter[m.id].version)

\* a faulty variant: a failed metadata request is dropped without a word
onLoadFilterMetadataListQuiet(S, k, success, filterMetadataList) ==
    IF success
    THEN loadFiltersFromBackend(S, k, SelectSeq(filterMetadataList, LAMBDA m : hasNewVersion(S, m)))
    ELSE [S EXCEPT !.checks[k].metaFailed = TRUE]

onLoadFilterMetadataList(S, k, success, filterMetadataList) ==
    IF success
    THEN loadFiltersFromBackend(S, k, SelectSeq(filterMetadataList, LAMBDA m : hasNewVersion(S, m)))
    ELSE onError([S EXCEPT !.checks[k].metaFailed = TRUE], k)

loadFiltersMetadataFromBackend(S, k, filterIds) ==
    IF Len(filterIds) = 0 THEN onLoadFilterMetadataList(S, k, TRUE, <<>>)
    ELSE [Io(S, "load-metadata", k, 0, NoVersion)
            EXCEPT !.metaReqs = @ \cup {[k |-> k, ids |-> filterIds]}]

\* a faulty variant: the time of the check is not written
setFiltersUpdateLastCheckSkipped(S, k, value) == S

setFiltersUpdateLastCheck(S, k, value) ==
    [Io(S, "set-last-check", k, 0, NoVersion) EXCEPT !.store = value]

\* the invocation k begins: const currentDate = new Date()
beginCheck(S, k, forceUpdate, filters, t) ==
    [S EXCEPT !.checks[k] = [NoCheck EXCEPT !.used = TRUE, !.forceUpdate = forceUpdate,
                                            !.currentDate = t, !.subset = filters.list]]

checkAntiBannerFiltersUpdate(S, k, forceUpdate, filters, t, hours) ==
    LET S1 == setFiltersUpdateLastCheck(beginCheck(S, k, forceUpdate, filters, t), k, t)
        toUpdate == selectFilterIdsToUpdate(S1, forceUpdate, filters, t, hours)
        S2 == [S1 EXCEPT !.checks[k].customIds = toUpdate.customFilterIds]
    IN IF Len(toUpdate.filterIds) + Len(toUpdate.customFilterIds) = 0
       THEN onSuccess(S2, k, <<>>)
       ELSE loadFiltersMetadataFromBackend(S2, k, toUpdate.filterIds)

\* a faulty variant: the check runs however recent the last one was
checkFilterUpdateNoWindow(S, k, filterId, t, hours) ==
    IF ~S.filter[filterId].enabled THEN S
    ELSE checkAntiBannerFiltersUpdate(S, k, TRUE, Only(<<filterId>>), t, hours)

\* Date.now() - undefined is NaN, and NaN < timeout is false
checkFilterUpdate(S, k, filterId, t, hours) ==
    IF ~S.filter[filterId].enabled THEN S
    ELSE IF /\ S.filter[filterId].lastCheckTime # NoTime
            /\ t - S.filter[filterId].lastCheckTime < ENABLED_FILTERS_SKIP_TIMEOUT
         THEN S
         ELSE checkAntiBannerFiltersUpdate(S, k, TRUE, Only(<<filterId>>), t, hours)

\* ------------------------------------- enable and update (part_001, 257-268)

\* a faulty variant: the callback checks a custom filter for updates too
enableAndUpdateCallbackCustomToo(S, filterId, success, k, t, hours) ==
    IF ~success THEN S
    ELSE LET S1 == enableFilter(S, filterId)
         IN IF Threw(S, S1) THEN S1
            ELSE checkFilterUpdate(S1, k, filterId, t, hours)

\* a faulty variant: the callback enables the filter whatever the install gave
enableAndUpdateCallbackAlways(S, filterId, success, k, t, hours) ==
    LET S1 == enableFilter(S, filterId)
    IN IF Threw(S, S1) \/ S1.filter[filterId].customUrl THEN S1
       ELSE checkFilterUpdate(S1, k, filterId, t, hours)

\* the callback enableAndUpdateFilter hands to addAntiBannerFilter; k is the
\* invocation of checkAntiBannerFiltersUpdate that checkFilterUpdate makes
enableAndUpdateCallback(S, filterId, success, k, t, hours) ==
    IF ~success THEN S
    ELSE LET S1 == enableFilter(S, filterId)
         IN IF Threw(S, S1) \/ S1.filter[filterId].customUrl THEN S1
            ELSE checkFilterUpdate(S1, k, filterId, t, hours)

\* onFilterLoaded of addAntiBannerFilter, called for enableAndUpdateFilter
onFilterLoadedToUpdate(S, filterId, success, k, t, hours) ==
    LET S1 == IF success
              THEN notifyListeners([S EXCEPT !.filter[filterId].installed = TRUE],
                                   "filter-add-remove", filterId)
              ELSE S
    IN enableAndUpdateCallback(S1, filterId, success, k, t, hours)

\* addAntiBannerFilter, called by enableAndUpdateFilter
enableAndUpdateFilter(S, filterId, k, t, hours) ==
    IF filterId \notin S.cache THEN Throw(S, "getFilterById", filterId)
    ELSE IF S.filter[filterId].installed
         THEN enableAndUpdateCallback(S, filterId, TRUE, k, t, hours)
    ELSE IF S.filter[filterId].loaded
         THEN onFilterLoadedToUpdate(S, filterId, TRUE, k, t, hours)
    ELSE loadFilterRules(S, filterId, SelfMeta, "enable", 0)

\* ------------------------------------------- the timers (part_002, 46-68, 390-395)

\* UPDATE_FILTERS_DELAY, in minutes
UPDATE_FILTERS_DELAY == 5

\* setTimeout returns a handle no timeout that is set has and that is not the
\* one filterAutoupdateTimer still holds
NewTimer(S) ==
    CHOOSE n \in 1..(Cardinality(S.timers) + 2) :
        /\ n # S.filterAutoupdateTimer
        /\ \A t \in S.timers : t.id # n

\* setTimeout(checkAntiBannerFiltersUpdate, UPDATE_FILTERS_DELAY, isFirstRun === true)
setFirstCheckTimeout(S, isFirstRun) ==
    [S EXCEPT !.timers = @ \cup {[id |-> NewTimer(S), recurring |-> FALSE,
                                   forceUpdate |-> isFirstRun, ms |-> UPDATE_FILTERS_DELAY]}]

clearTimeout(S, id) == [S EXCEPT !.timers = {t \in @ : t.id # id}]

\* scheduleUpdate of the closure that captured updateFiltersPeriodInMs
scheduleUpdate(S, updateFiltersPeriodInMs) ==
    IF updateFiltersPeriodInMs <= 0 THEN S
    ELSE LET id == NewTimer(S)
         IN [S EXCEPT !.timers = @ \cup {[id |-> id, recurring |-> TRUE, forceUpdate |-> FALSE,
                                          ms |-> updateFiltersPeriodInMs]},
                      !.filterAutoupdateTimer = id]

scheduleFiltersUpdate(S, isFirstRun, hours) ==
    scheduleUpdate(setFirstCheckTimeout(S, isFirstRun), hours * MinutesPerHour)

rerunAutoUpdateTimer(S, hours) ==
    LET S1 == IF S.filterAutoupdateTimer # 0 THEN clearTimeout(S, S.filterAutoupdateTimer)
              ELSE S
    IN scheduleFiltersUpdate(S1, FALSE, hours)

\* the check a timer runs: it raises when a collaborator does (the storage
\* write it begins with), and then has done nothing
scheduledCheck(S, k, forceUpdate, raises, t, hours) ==
    IF raises THEN Throw(S, "checkAntiBannerFiltersUpdate", 0)
    ELSE checkAntiBannerFiltersUpdate(S, k, forceUpdate, AllFilters, t, hours)

\* a faulty variant: the callback of the recurring timer without its try
recurringTimerFiredNoTry(S, tm, k, raises, t, hours) ==
    LET S1 == scheduledCheck(clearTimeout(S, tm.id), k, FALSE, raises, t, hours)
    IN IF raises THEN S1 ELSE scheduleUpdate(S1, tm.ms)

\* the callback of the recurring timer: try { check } catch { log }, then
\* scheduleUpdate()
recurringTimerFired(S, tm, k, raises, t, hours) ==
    LET S0 == clearTimeout(S, tm.id)
        S1 == scheduledCheck(S0, k, FALSE, raises, t, hours)
        S2 == IF Threw(S0, S1) THEN [S0 EXCEPT !.logged = @ \cup {"Error update filters"}]
              ELSE S1
    IN scheduleUpdate(S2, tm.ms)

\* the first-check timeout calls checkAntiBannerFiltersUpdate(isFirstRun === true)
firstCheckTimerFired(S, tm, k, raises, t, hours) ==
    scheduledCheck(clearTimeout(S, tm.id), k, tm.forceUpdate, raises, t, hours)

\* ------------------------------------------------------- the update machine

\* what the server can answer for a filter: nothing, a record without a
\* version, or a version below, equal to or above the one shipped
Omitted == <<0 - 1>>
RemoteVersions == {NoVersion, <<0, 2>>, <<1, 1>>, <<1, 2>>}
Responses(filterIds) ==
    LET ids == {filterIds[i] : i \in 1..Len(filterIds)}
    IN { [i \in 1..Len(SortedSeq({id \in ids : g[id] # Omitted})) |->
            LET id == SortedSeq({x \in ids : g[x] # Omitted})[i]
            IN [id |-> id, version |-> g[id], timeUpdated |-> TimeUpdatedOf(g[id])]]
         : g \in [ids -> RemoteVersions \cup {Omitted}] }

Installed(g) == [Fresh(g) EXCEPT !.loaded = TRUE, !.installed = TRUE, !.enabled = TRUE]
InstalledCustom == [Installed(CUSTOM_FILTERS_GROUP_ID) EXCEPT !.customUrl = TRUE]

InitUpdate ==
    /\ cache = Ids
    /\ \E t1 \in {NoTime, 70}, e2 \in BOOLEAN :
          filter = [id \in Ids |->
                      IF id = 1 THEN [Installed(1) EXCEPT !.lastCheckTime = t1]
                      ELSE IF id = 2 THEN [Installed(1) EXCEPT !.enabled = e2]
                      ELSE InstalledCustom]
    /\ groups = [g \in GroupIds |-> True]
    /\ stateInfo = [id \in Ids |-> Tri(filter[id].enabled)]
    /\ events = [id \in Ids |-> <<>>]
    /\ groupEvents = [g \in GroupIds |-> <<>>]
    /\ inflight = {}
    /\ chains = <<>>
    /\ thrown = <<>>
    /\ lastCall = NoCall
    /\ ops = 0
    /\ now = 100
    /\ period = 1
    /\ store = NoTime
    /\ checks = [k \in 1..MaxChecks |-> NoCheck]
    /\ metaReqs = {}
    /\ customReqs = {}
    /\ timers = {}
    /\ filterAutoupdateTimer = 0
    /\ logged = {}
    /\ snapshot = NoSnapshot
    /\ cleanup = NoCleanup
    /\ selected = NoSelection

FreeCheck(k) ==
    /\ k \in DOMAIN checks
    /\ ~checks[k].used
    /\ \A j \in 1..(k - 1) : checks[j].used

CheckAntiBannerFiltersUpdate(k, forceUpdate) ==
    /\ FreeCheck(k)
    /\ Commit(checkAntiBannerFiltersUpdate(Cur, k, forceUpdate, AllFilters, now, period))
    /\ UNCHANGED <<ops, now, period, selected>>

CheckFilterUpdate(k, filterId) ==
    /\ FreeCheck(k)
    /\ filterId \in cache
    /\ Commit(checkFilterUpdate(Cur, k, filterId, now, period))
    /\ UNCHANGED <<ops, now, period, selected>>

MetadataLoaded(q, filterMetadataList) ==
    /\ q \in metaReqs
    /\ Commit(onLoadFilterMetadataList([Cur EXCEPT !.metaReqs = @ \ {q}], q.k, TRUE,
                                       filterMetadataList))
    /\ UNCHANGED <<ops, now, period, selected>>

MetadataError(q) ==
    /\ q \in metaReqs
    /\ Commit(onLoadFilterMetadataList([Cur EXCEPT !.metaReqs = @ \ {q}], q.k, FALSE, <<>>))
    /\ UNCHANGED <<ops, now, period, selected>>

RulesLoaded(r) ==
    /\ r \in inflight
    /\ r.kind = "update"
    /\ Commit(batchMemberDone(downloadSucceeded(Cur, r, now), r.cont, r.id, TRUE))
    /\ UNCHANGED <<ops, now, period, selected>>

RulesError(r) ==
    /\ r \in inflight
    /\ r.kind = "update"
    /\ Commit(batchMemberDone(downloadFailed(Cur, r), r.cont, r.id, FALSE))
    /\ UNCHANGED <<ops, now, period, selected>>

CustomUpdated(q, ok) ==
    /\ q \in customReqs
    /\ Commit(customUpdated(Cur, q, ok))
    /\ UNCHANGED <<ops, now, period, selected>>

Tick ==
    /\ now < 100 + MaxTicks
    /\ now' = now + 1
    /\ UNCHANGED <<lifecycleVars, period, updateVars>>

NextUpdate ==
    \/ \E k \in 1..MaxChecks, forceUpdate \in BOOLEAN : CheckAntiBannerFiltersUpdate(k, forceUpdate)
    \/ \E q \in metaReqs : \E list \in Responses(q.ids) : MetadataLoaded(q, list)
    \/ \E q \in metaReqs : MetadataError(q)
    \/ \E r \in inflight : RulesLoaded(r)
    \/ \E r \in inflight : RulesError(r)
    \/ \E q \in customReqs, ok \in BOOLEAN : CustomUpdated(q, ok)
    \/ Tick

SpecUpdate == InitUpdate /\ [][NextUpdate]_vars

\* ---------------------------------------------------- the selection machine

\* the subsets of filters the callers hand over
Subsets == {AllFilters, Only(<<>>), Only(<<1>>), Only(<<2, 1>>), Only(<<3>>), Only(<<1, 3>>)}
\* the times of a last check: never, the period ago to the minute and a minute
\* less, the skip timeout ago to the minute and a minute less
CheckTimes == {NoTime, 40, 41, 95, 96}

InitSelect ==
    /\ cache = Ids
    /\ \E e1, i1, e3 \in BOOLEAN, t1 \in CheckTimes, t2 \in {NoTime, 41}, t3 \in {NoTime, 96} :
          filter = [id \in Ids |->
                      IF id = 1 THEN [Installed(1) EXCEPT !.enabled = e1, !.installed = i1,
                                                          !.lastCheckTime = t1]
                      ELSE IF id = 2 THEN [Installed(1) EXCEPT !.lastCheckTime = t2]
                      ELSE IF id = 3 THEN [InstalledCustom EXCEPT !.enabled = e3,
                                                                  !.lastCheckTime = t3]
                      ELSE InstalledCustom]
    /\ groups = [g \in GroupIds |-> True]
    /\ stateInfo = [id \in Ids |-> Tri(filter[id].enabled)]
    /\ events = [id \in Ids |-> <<>>]
    /\ groupEvents = [g \in GroupIds |-> <<>>]
    /\ inflight = {}
    /\ chains = <<>>
    /\ thrown = <<>>
    /\ lastCall = NoCall
    /\ ops = 0
    /\ now = 100
    /\ period \in {0, 1}
    /\ store = NoTime
    /\ checks = [k \in 1..MaxChecks |-> NoCheck]
    /\ metaReqs = {}
    /\ customReqs = {}
    /\ timers = {}
    /\ filterAutoupdateTimer = 0
    /\ logged = {}
    /\ snapshot = NoSnapshot
    /\ cleanup = NoCleanup
    /\ selected = NoSelection

SelectFilterIdsToUpdate(forceUpdate, filtersToUpdate) ==
    /\ selected' = [called |-> TRUE, forceUpdate |-> forceUpdate,
                    given |-> filtersToUpdate.given, list |-> filtersToUpdate.list]
                   @@ selectFilterIdsToUpdate(Cur, forceUpdate, filtersToUpdate, now, period)
    /\ UNCHANGED <<lifecycleVars, now, period, store, checks, metaReqs, customReqs,
                   timers, filterAutoupdateTimer, logged>>

NextSelect ==
    \/ \E forceUpdate \in BOOLEAN, filtersToUpdate \in Subsets :
            SelectFilterIdsToUpdate(forceUpdate, filtersToUpdate)
    \/ \E k \in 1..MaxChecks, filterId \in Ids : CheckFilterUpdate(k, filterId)

SpecSelect == InitSelect /\ [][NextSelect]_vars

\* -------------------------------------------------------- the timer machine

\* the update periods the user can set, in hours: 0 turns the autoupdate off
Periods == {0, 1, 2}
\* the record of the check a timer ran last
ScheduledCheck == 1

\* no filter is enabled yet: a check finds nothing to update
InitTimer ==
    /\ cache = Ids
    /\ filter = [id \in Ids |-> IF id \in CustomIds THEN Custom ELSE Fresh(1)]
    /\ groups = [g \in GroupIds |-> Undefined]
    /\ stateInfo = [id \in Ids |-> Undefined]
    /\ events = [id \in Ids |-> <<>>]
    /\ groupEvents = [g \in GroupIds |-> <<>>]
    /\ inflight = {}
    /\ chains = <<>>
    /\ thrown = <<>>
    /\ lastCall = NoCall
    /\ ops = 0
    /\ now = 100
    /\ period \in Periods
    /\ store = NoTime
    /\ checks = [k \in 1..MaxChecks |-> NoCheck]
    /\ metaReqs = {}
    /\ customReqs = {}
    /\ selected = NoSelection
    /\ timers = {}
    /\ filterAutoupdateTimer = 0
    /\ logged = {}
    /\ snapshot = NoSnapshot
    /\ cleanup = NoCleanup

ScheduleFiltersUpdate(isFirstRun) ==
    /\ ops < MaxOps
    /\ ops' = ops + 1
    /\ Commit(scheduleFiltersUpdate(Cur, isFirstRun, period))
    /\ UNCHANGED <<now, period, selected>>

RerunAutoUpdateTimer ==
    /\ ops < MaxOps
    /\ ops' = ops + 1
    /\ Commit(rerunAutoUpdateTimer(Cur, period))
    /\ UNCHANGED <<now, period, selected>>

\* the user changes the update period in the settings
SetUpdateFiltersPeriod(hours) ==
    /\ ops < MaxOps
    /\ ops' = ops + 1
    /\ hours # period
    /\ period' = hours
    /\ Commit(Cur)
    /\ UNCHANGED <<now, selected>>

RecurringTimerFires(tm, raises) ==
    /\ tm \in timers
    /\ tm.recurring
    /\ Commit(recurringTimerFired(Cur, tm, ScheduledCheck, raises, now, period))
    /\ UNCHANGED <<ops, now, period, selected>>

FirstCheckTimerFires(tm, raises) ==
    /\ tm \in timers
    /\ ~tm.recurring
    /\ Commit(firstCheckTimerFired(Cur, tm, ScheduledCheck, raises, now, period))
    /\ UNCHANGED <<ops, now, period, selected>>

NextTimer ==
    \/ \E isFirstRun \in BOOLEAN : ScheduleFiltersUpdate(isFirstRun)
    \/ RerunAutoUpdateTimer
    \/ \E hours \in Periods : SetUpdateFiltersPeriod(hours)
    \/ \E tm \in timers, raises \in BOOLEAN : RecurringTimerFires(tm, raises)
    \/ \E tm \in timers, raises \in BOOLEAN : FirstCheckTimerFires(tm, raises)

SpecTimer == InitTimer /\ [][NextTimer]_vars

\* the application as it runs: scheduleFiltersUpdate was called once when it
\* started, the user changes the period, never to off, and the settings call
\* rerunAutoUpdateTimer; a timer that is set does fire
Unscheduled == [timers |-> {}, filterAutoupdateTimer |-> 0]
InitScheduled ==
    /\ cache = Ids
    /\ filter = [id \in Ids |-> IF id \in CustomIds THEN Custom ELSE Fresh(1)]
    /\ groups = [g \in GroupIds |-> Undefined]
    /\ stateInfo = [id \in Ids |-> Undefined]
    /\ events = [id \in Ids |-> <<>>]
    /\ groupEvents = [g \in GroupIds |-> <<>>]
    /\ inflight = {}
    /\ chains = <<>>
    /\ thrown = <<>>
    /\ lastCall = NoCall
    /\ ops = 0
    /\ now = 100
    /\ period \in Periods \ {0}
    /\ store = NoTime
    /\ checks = [k \in 1..MaxChecks |-> NoCheck]
    /\ metaReqs = {}
    /\ customReqs = {}
    /\ selected = NoSelection
    /\ \E isFirstRun \in BOOLEAN :
          LET S == scheduleFiltersUpdate(Unscheduled, isFirstRun, period)
          IN timers = S.timers /\ filterAutoupdateTimer = S.filterAutoupdateTimer
    /\ logged = {}
    /\ snapshot = NoSnapshot
    /\ cleanup = NoCleanup

NextScheduled ==
    \/ RerunAutoUpdateTimer
    \/ \E hours \in Periods \ {0} : SetUpdateFiltersPeriod(hours)
    \/ \E tm \in timers, raises \in BOOLEAN : RecurringTimerFires(tm, raises)
    \/ \E tm \in timers, raises \in BOOLEAN : FirstCheckTimerFires(tm, raises)

SpecScheduled ==
    /\ InitScheduled
    /\ [][NextScheduled]_vars
    /\ WF_vars(\E tm \in timers : RecurringTimerFires(tm, TRUE) \/ RecurringTimerFires(tm, FALSE))

\* ------------------------------------------ the obsolete filters machine

\* the metadata of the built-in filters: a filter id has one record at most
Names == {"A", "B"}
Metadatas ==
    {m \in SUBSET [filterId : BuiltinIds, name : Names] :
        \A f \in m, g \in m : f.filterId = g.filterId => f = g}

RemoveObsoleteFilters ==
    /\ ops < MaxOps
    /\ cleanup.stage \in {"idle", "done"}
    /\ ops' = ops + 1
    /\ Commit(removeObsoleteFilters(Cur))
    /\ UNCHANGED <<now, period, selected>>

LocalFiltersMetadataLoaded(localMetadata) ==
    /\ cleanup.stage = "local"
    /\ Commit(onLocalFiltersMetadata(Cur, localMetadata))
    /\ UNCHANGED <<ops, now, period, selected>>

RemoteFiltersMetadataLoaded(remoteMetadata) ==
    /\ cleanup.stage = "remote"
    /\ Commit(onRemoteFiltersMetadata(Cur, remoteMetadata))
    /\ UNCHANGED <<ops, now, period, selected>>

NextCleanup ==
    \/ RemoveObsoleteFilters
    \/ \E localMetadata \in Metadatas : LocalFiltersMetadataLoaded(localMetadata)
    \/ \E remoteMetadata \in Metadatas : RemoteFiltersMetadataLoaded(remoteMetadata)
    \/ \E filterIds \in DisableLists : DisableFilters(filterIds)
    \/ \E filterId \in BuiltinIds : RemoveFilter(filterId)

SpecCleanup == Init /\ [][NextCleanup]_vars

\* ------------------------------------------------- the registry machine

\* the invocation of checkAntiBannerFiltersUpdate that is made next
NextCheck == CHOOSE k \in 1..(MaxChecks + 1) : k = MaxChecks + 1 \/ FreeCheck(k)

InitRegistry ==
    /\ cache \in {{1}, {1, 2}}
    /\ \E p1 \in StartProfiles(1), p2 \in {Fresh(1), Installed(1)} :
          filter = [id \in Ids |-> IF id \in CustomIds THEN Custom
                                   ELSE IF id = 1 THEN p1
                                   ELSE IF 2 \in cache THEN p2 ELSE Fresh(1)]
    /\ groups = [g \in GroupIds |-> Undefined]
    /\ stateInfo = [id \in Ids |-> IF filter[id].installed THEN Tri(filter[id].enabled)
                                   ELSE Undefined]
    /\ events = [id \in Ids |-> <<>>]
    /\ groupEvents = [g \in GroupIds |-> <<>>]
    /\ inflight = {}
    /\ chains = [c \in 1..MaxOps |-> NoChain]
    /\ thrown = <<>>
    /\ lastCall = NoCall
    /\ ops = 0
    /\ now = 100
    /\ period = 1
    /\ store = NoTime
    /\ checks = [k \in 1..MaxChecks |-> NoCheck]
    /\ metaReqs = {}
    /\ customReqs = {}
    /\ selected = NoSelection
    /\ timers = {}
    /\ filterAutoupdateTimer = 0
    /\ logged = {}
    /\ snapshot = NoSnapshot
    /\ cleanup = NoCleanup

EnableAndUpdateFilter(filterId) ==
    /\ ops < MaxOps
    /\ NextCheck <= MaxChecks
    /\ ops' = ops + 1
    /\ Commit(enableAndUpdateFilter(Cur, filterId, NextCheck, now, period))
    /\ UNCHANGED <<now, period, selected>>

\* the download enableAndUpdateFilter started calls back
EnableSuccess(r) ==
    /\ r.kind = "enable"
    /\ NextCheck <= MaxChecks
    /\ Commit(onFilterLoadedToUpdate(downloadSucceeded(Cur, r, now), r.id, TRUE,
                                     NextCheck, now, period))
    /\ UNCHANGED <<ops, now, period, selected>>

EnableError(r) ==
    /\ r.kind = "enable"
    /\ Commit(onFilterLoadedToUpdate(downloadFailed(Cur, r), r.id, FALSE,
                                     NextCheck, now, period))
    /\ UNCHANGED <<ops, now, period, selected>>

NextRegistry ==
    \/ \E c \in 1..MaxOps, filterIds \in EnableLists : AddAndEnableFilters(c, filterIds)
    \/ \E filterId \in BuiltinIds : EnableAndUpdateFilter(filterId)
    \/ \E filterIds \in DisableLists : DisableFilters(filterIds)
    \/ \E filterId \in BuiltinIds : RemoveFilter(filterId)
    \/ \E r \in inflight : InstallSuccess(r)
    \/ \E r \in inflight : InstallError(r)
    \/ \E r \in inflight : EnableSuccess(r)
    \/ \E r \in inflight : EnableError(r)
    \/ \E q \in metaReqs : \E list \in Responses(q.ids) : MetadataLoaded(q, list)
    \/ \E q \in metaReqs : MetadataError(q)
    \/ \E r \in inflight : RulesLoaded(r)
    \/ \E r \in inflight : RulesError(r)

SpecRegistry == InitRegistry /\ [][NextRegistry]_vars

\* --------------------------------------------------- the groups machine

\* the group ids handed to enableGroup and disableGroup: 2 is no group
GroupArgs == {1, 2}

InitGroups ==
    /\ cache \in {{1}, {1, 2}}
    /\ \E p1 \in StartProfiles(1), p2 \in {Fresh(1), Installed(1)} :
          filter = [id \in Ids |-> IF id \in CustomIds THEN Custom
                                   ELSE IF id = 1 THEN p1
                                   ELSE IF 2 \in cache THEN p2 ELSE Fresh(1)]
    /\ \E enabled \in {Undefined, True, False} :
          groups = [g \in GroupIds |-> IF g = 1 THEN enabled ELSE Undefined]
    /\ stateInfo = [id \in Ids |-> IF filter[id].installed THEN Tri(filter[id].enabled)
                                   ELSE Undefined]
    /\ events = [id \in Ids |-> <<>>]
    /\ groupEvents = [g \in GroupIds |-> <<>>]
    /\ inflight = {}
    /\ chains = [c \in 1..MaxOps |-> NoChain]
    /\ thrown = <<>>
    /\ lastCall = NoCall
    /\ ops = 0
    /\ now = 100
    /\ period = 1
    /\ UpdateIdle

EnableGroup(groupId) ==
    /\ ops < MaxOps
    /\ ops' = ops + 1
    /\ Commit(CalledGroup(Cur, enableGroup(Cur, groupId), "enableGroup", groupId))
    /\ UNCHANGED <<now, period, selected>>

DisableGroup(groupId) ==
    /\ ops < MaxOps
    /\ ops' = ops + 1
    /\ Commit(CalledGroup(Cur, disableGroup(Cur, groupId), "disableGroup", groupId))
    /\ UNCHANGED <<now, period, selected>>

NextGroups ==
    \/ \E groupId \in GroupArgs : EnableGroup(groupId)
    \/ \E groupId \in GroupArgs : DisableGroup(groupId)
    \/ \E c \in 1..MaxOps, filterIds \in EnableLists : AddAndEnableFilters(c, filterIds)
    \/ \E r \in inflight : InstallSuccess(r)
    \/ \E r \in inflight : InstallError(r)

SpecGroups == InitGroups /\ [][NextGroups]_vars

\* ------------------------------------------- the filters groups machine

\* the addAndEnableFilters call that is made next
NextChain == CHOOSE c \in 1..(MaxOps + 1) : c = MaxOps + 1 \/ chains[c].status = "unused"

EnableFiltersGroup(groupId, recommendedFiltersIds) ==
    /\ ops < MaxOps
    /\ ops' = ops + 1
    /\ Commit(CalledGroup(Cur, enableFiltersGroup(Cur, NextChain, groupId, recommendedFiltersIds),
                          "enableFiltersGroup", groupId))
    /\ UNCHANGED <<now, period, selected>>

DisableFiltersGroup(groupId) ==
    /\ ops < MaxOps
    /\ ops' = ops + 1
    /\ Commit(CalledGroup(Cur, disableFiltersGroup(Cur, groupId), "disableFiltersGroup", groupId))
    /\ UNCHANGED <<now, period, selected>>

NextFiltersGroups ==
    \/ \E groupId \in GroupArgs, recommendedFiltersIds \in EnableLists :
          EnableFiltersGroup(groupId, recommendedFiltersIds)
    \/ \E groupId \in GroupArgs : DisableFiltersGroup(groupId)
    \/ \E r \in inflight : InstallSuccess(r)
    \/ \E r \in inflight : InstallError(r)

SpecFiltersGroups == InitGroups /\ [][NextFiltersGroups]_vars

\* ------------------------------------------ the enable and update machine

\* when the filters were last checked: never, long ago, or within the skip timeout
LastChecks == {NoTime, 90, 97}
\* a built-in filter and a custom one; each is new, loaded, or installed
InitEnableAndUpdate ==
    /\ cache = {1, 3}
    /\ \E p1 \in {Fresh(1), [Fresh(1) EXCEPT !.loaded = TRUE],
                  [Fresh(1) EXCEPT !.loaded = TRUE, !.installed = TRUE]},
          p3 \in {Custom, [Custom EXCEPT !.loaded = TRUE],
                  [Custom EXCEPT !.loaded = TRUE, !.installed = TRUE]},
          t \in LastChecks :
          /\ (~p1.loaded) => t = NoTime
          /\ filter = [id \in Ids |->
                         IF id = 1 THEN [p1 EXCEPT !.lastCheckTime = t]
                         ELSE IF id = 3 THEN [p3 EXCEPT !.lastCheckTime = IF p3.loaded THEN t ELSE NoTime]
                         ELSE IF id \in CustomIds THEN Custom ELSE Fresh(1)]
    /\ groups = [g \in GroupIds |-> Undefined]
    /\ stateInfo = [id \in Ids |-> IF filter[id].installed THEN Tri(filter[id].enabled)
                                   ELSE Undefined]
    /\ events = [id \in Ids |-> <<>>]
    /\ groupEvents = [g \in GroupIds |-> <<>>]
    /\ inflight = {}
    /\ chains = [c \in 1..MaxOps |-> NoChain]
    /\ thrown = <<>>
    /\ lastCall = NoCall
    /\ ops = 0
    /\ now = 100
    /\ period = 1
    /\ store = NoTime
    /\ checks = [k \in 1..MaxChecks |-> NoCheck]
    /\ metaReqs = {}
    /\ customReqs = {}
    /\ selected = NoSelection
    /\ timers = {}
    /\ filterAutoupdateTimer = 0
    /\ logged = {}
    /\ snapshot = NoSnapshot
    /\ cleanup = NoCleanup

NextEnableAndUpdate ==
    \/ \E filterId \in {1, 3} : EnableAndUpdateFilter(filterId)
    \/ \E r \in inflight : EnableSuccess(r)
    \/ \E r \in inflight : EnableError(r)
    \/ \E q \in metaReqs : \E list \in Responses(q.ids) : MetadataLoaded(q, list)
    \/ \E q \in metaReqs : MetadataError(q)
    \/ \E r \in inflight : RulesLoaded(r)
    \/ \E r \in inflight : RulesError(r)
    \/ \E filterIds \in {<<1>>} : DisableFilters(filterIds)

SpecEnableAndUpdate == InitEnableAndUpdate /\ [][NextEnableAndUpdate]_vars

\* ------------------------------------------------ the enable filter machine

\* an ordinary filter, the search and self-promotion filter and a custom
\* filter are registered; every group was never toggled, is enabled or is disabled
InitEnableFilter ==
    /\ cache = {1, 2, 3}
    /\ \E p1 \in {[Fresh(1) EXCEPT !.loaded = TRUE, !.installed = TRUE], Installed(1)} :
          filter = [id \in Ids |->
                      IF id = 1 THEN p1
                      ELSE IF id \in CustomIds
                           THEN [Custom EXCEPT !.loaded = TRUE, !.installed = TRUE]
                           ELSE [Fresh(1) EXCEPT !.loaded = TRUE, !.installed = TRUE]]
    /\ groups \in [GroupIds -> {Undefined, True, False}]
    /\ stateInfo = [id \in Ids |-> IF id \in cache THEN Tri(filter[id].enabled) ELSE Undefined]
    /\ events = [id \in Ids |-> <<>>]
    /\ groupEvents = [g \in GroupIds |-> <<>>]
    /\ inflight = {}
    /\ chains = [c \in 1..MaxOps |-> NoChain]
    /\ thrown = <<>>
    /\ lastCall = NoCall
    /\ ops = 0
    /\ now = 100
    /\ period = 1
    /\ UpdateIdle

EnableFilter(filterId) ==
    /\ ops < MaxOps
    /\ ops' = ops + 1
    /\ Commit(enableFilter(Cur, filterId))
    /\ UNCHANGED <<now, period, selected>>

NextEnableFilter ==
    \/ \E filterId \in {1, 2, 3, 4} : EnableFilter(filterId)
    \/ \E groupId \in GroupIds : DisableGroup(groupId)
    \/ \E groupId \in GroupIds : EnableGroup(groupId)
    \/ \E filterIds \in {<<1>>, <<2>>, <<3>>} : DisableFilters(filterIds)

SpecEnableFilter == InitEnableFilter /\ [][NextEnableFilter]_vars

\* ------------------------------------------- the switched-off period machine

\* the update period of the settings: negative, zero, or one hour
OffPeriods == {-1, 0, 1}
\* the times of a last check: never, an hour ago, this very minute
OffCheckTimes == {NoTime, 40, 100}
InitOffPeriod ==
    /\ cache = Ids
    /\ \E e1 \in BOOLEAN, t1 \in OffCheckTimes :
          filter = [id \in Ids |->
                      IF id = 1 THEN [Installed(1) EXCEPT !.enabled = e1, !.lastCheckTime = t1]
                      ELSE IF id = 2 THEN [Installed(1) EXCEPT !.lastCheckTime = 100]
                      ELSE InstalledCustom]
    /\ groups = [g \in GroupIds |-> True]
    /\ stateInfo = [id \in Ids |-> Tri(filter[id].enabled)]
    /\ events = [id \in Ids |-> <<>>]
    /\ groupEvents = [g \in GroupIds |-> <<>>]
    /\ inflight = {}
    /\ chains = <<>>
    /\ thrown = <<>>
    /\ lastCall = NoCall
    /\ ops = 0
    /\ now = 100
    /\ period \in OffPeriods
    /\ store = NoTime
    /\ checks = [k \in 1..MaxChecks |-> NoCheck]
    /\ metaReqs = {}
    /\ customReqs = {}
    /\ selected = NoSelection
    /\ timers = {}
    /\ filterAutoupdateTimer = 0
    /\ logged = {}
    /\ snapshot = NoSnapshot
    /\ cleanup = NoCleanup

OffSubsets == {AllFilters, Only(<<2, 1>>)}
NextOffPeriod ==
    \/ \E forceUpdate \in BOOLEAN, filtersToUpdate \in OffSubsets :
            SelectFilterIdsToUpdate(forceUpdate, filtersToUpdate)
    \/ \E k \in 1..MaxChecks, forceUpdate \in BOOLEAN : CheckAntiBannerFiltersUpdate(k, forceUpdate)
    \/ \E isFirstRun \in BOOLEAN : ScheduleFiltersUpdate(isFirstRun)
    \/ RerunAutoUpdateTimer
    \/ \E hours \in OffPeriods : SetUpdateFiltersPeriod(hours)

SpecOffPeriod == InitOffPeriod /\ [][NextOffPeriod]_vars

\* -------------------------------------------------------------- properties

FirstIndex(seq, x) == CHOOSE i \in 1..Len(seq) : seq[i] = x /\ \A j \in 1..(i - 1) : seq[j] # x
Used == {c \in DOMAIN chains : chains[c].status # "unused"}

\* C1 (as stated): enableFilter(id) and disableFilters([id]) on an id the
\* registry does not hold publish no event and raise no error.
C1_AbsentIdIsSilent ==
    (lastCall.op \in {"enableFilter", "disableFilters"} /\ lastCall.single
        /\ lastCall.absent)
    => (lastCall.published = 0 /\ ~lastCall.threw)

\* The half of C1 the code keeps: disableFilters([id]) on an unregistered id
\* publishes nothing and raises nothing.
C1_DisableAbsentIsSilent ==
    (lastCall.op = "disableFilters" /\ lastCall.single /\ lastCall.absent)
    => (lastCall.published = 0 /\ ~lastCall.threw)

C1_DisableAbsentHappened ==
    lastCall.op = "disableFilters" /\ lastCall.single /\ lastCall.absent

\* C2: within one addAndEnableFilters call the ids are taken up one at a time:
\* the ids handed to addAntiBannerFilter are distinct, are ids of the list, and
\* come in the order of their first occurrence in it; when the call has run
\* to its end every id of the list was taken up; the next id is taken up only
\* after the callback of the one before ran and, if that reported success,
\* after its filter-enable-disable event was published; and at most one
\* install of the call is in flight, that of the id taken up last.
C2_Chain(c) ==
    LET log == chains[c].log
        given == chains[c].given
        adds == {i \in 1..Len(log) : log[i].what = "add"}
    IN /\ \A i \in 1..Len(log) :
            /\ (i % 2 = 1) => log[i].what = "add"
            /\ (i % 2 = 0) => log[i].what = "callback" /\ log[i].id = log[i - 1].id
       /\ \A i \in adds : Occurs(given, log[i].id)
       /\ \A i, j \in adds :
            i < j => /\ log[i].id # log[j].id
                     /\ FirstIndex(given, log[i].id) < FirstIndex(given, log[j].id)
       /\ chains[c].status = "done" =>
            \A k \in 1..Len(given) : \E i \in adds : log[i].id = given[k]
       /\ \A i \in adds :
            (i > 1 /\ log[i - 1].ok) =>
                LET prev == log[i - 1].id
                IN \E e \in (log[i - 1].at[prev] + 1)..log[i].at[prev] :
                     events[prev][e] = "filter-enable-disable"
       /\ \A r \in inflight :
            (r.kind = "install" /\ r.cont = c) =>
                /\ Len(log) % 2 = 1
                /\ log[Len(log)].id = r.id
                /\ \A q \in inflight : (q.kind = "install" /\ q.cont = c) => q = r

C3_Completes(r) ==
    /\ r.kind = "install"
    /\ chains[r.cont].given = <<r.id>>
    /\ r.id \in cache
    /\ ~filter[r.id].installed
    /\ InstallSuccess(r)

C3_Post(r) ==
    LET old == events[r.id]
        all == events'[r.id]
        new == SubSeq(all, Len(old) + 1, Len(all))
    IN /\ ~filter[r.id].enabled
       /\ filter'[r.id].installed /\ filter'[r.id].enabled
       /\ Occurs(old, "start-download")
       /\ SubSeq(all, 1, Len(old)) = old
       /\ SelectSeq(new, LAMBDA e : e # "update-filter-rules")
            = <<"success-download", "filter-add-remove", "filter-enable-disable">>

C3_InstallThenEnable == [][\A r \in inflight : C3_Completes(r) => C3_Post(r)]_vars

C3_RoundTripDone ==
    \E c \in Used :
        /\ chains[c].given = <<1>>
        /\ chains[c].status = "done"
        /\ filter[1].installed /\ filter[1].enabled
        /\ events[1] = <<"start-download", "success-download", "update-filter-rules",
                         "filter-add-remove", "filter-enable-disable">>

\* the invocations of checkAntiBannerFiltersUpdate so far
UsedChecks == {k \in DOMAIN checks : checks[k].used}
\* a network call of the invocation k has not called back yet
Waiting(k) ==
    \/ \E q \in metaReqs : q.k = k
    \/ \E r \in inflight : r.kind = "update" /\ r.cont = k
    \/ \E q \in customReqs : q.k = k
Range(seq) == {seq[i] : i \in 1..Len(seq)}

\* C4: every invocation of checkAntiBannerFiltersUpdate publishes the popup event
\* at most once, and exactly once as soon as none of its network calls is
\* outstanding; the popup says success = false exactly when the metadata request
\* or some rule download of the invocation failed, and a failure always has its
\* popup.
C4_Check(k) ==
    LET c == checks[k]
        failure == c.metaFailed \/ c.failed # {}
    IN /\ Len(c.popups) <= 1
       /\ Len(c.popups) = 0 => Waiting(k)
       /\ \A i \in 1..Len(c.popups) : c.popups[i].success = ~failure
       /\ failure => Len(c.popups) = 1
C4_PopupExactlyOnce == \A k \in UsedChecks : C4_Check(k)
\* both rule downloads of an invocation failed, and there is one popup
C4_TwoFailuresOnePopup ==
    \E k \in UsedChecks :
        /\ checks[k].failed = {1, 2}
        /\ ~Waiting(k)
        /\ Len(checks[k].popups) = 1
        /\ ~checks[k].popups[1].success

\* C5: the first thing an invocation of checkAntiBannerFiltersUpdate does is to
\* write the time of the check to the store, every network request of the
\* invocation comes after that; the store holds the time of the latest
\* invocation whatever became of it, and the popup of an invocation carries the
\* time the invocation wrote.
C5_Check(k) ==
    LET c == checks[k]
    IN /\ Len(c.io) >= 1
       /\ c.io[1].what = "set-last-check"
       /\ \A i \in 2..Len(c.io) : c.io[i].what \in {"load-metadata", "load-rules", "update-custom"}
       /\ store # NoTime
       /\ (\A j \in UsedChecks : j <= k) => store = c.currentDate
       /\ \A i \in 1..Len(c.popups) : c.popups[i].filtersUpdateLastCheck = c.currentDate
C5_TimestampFirst == \A k \in UsedChecks : C5_Check(k)
\* a check failed a minute after it began: the store and the popup have the
\* time it began
C5_FailedCheckStamped ==
    \E k \in UsedChecks :
        /\ checks[k].metaFailed
        /\ now > checks[k].currentDate
        /\ store = checks[k].currentDate
        /\ Len(checks[k].popups) = 1
        /\ checks[k].popups[1].filtersUpdateLastCheck = checks[k].currentDate

\* the version a is above the version b: at the first of the four numbers
\* where they differ, a has the greater one
StrictlyGreater(a, b) ==
    \E i \in 1..4 : /\ VersionPart(a, i) > VersionPart(b, i)
                    /\ \A j \in 1..(i - 1) : VersionPart(a, j) = VersionPart(b, j)

\* C6: every rule download an update check has asked for is of a filter whose
\* metadata carried a version strictly above the version the registry held
\* when the metadata was processed.
C6_Check(k) ==
    LET c == checks[k]
    IN \A i \in 1..Len(c.io) :
         c.io[i].what = "load-rules" =>
            /\ c.io[i].remote # NoVersion
            /\ StrictlyGreater(c.io[i].remote, c.io[i].local)
C6_OnlyNewerVersionLoads == \A k \in UsedChecks : C6_Check(k)
\* a check of the filters 1 and 2 found a newer version of filter 2 alone and
\* downloaded only that
C6_NewerVersionLoaded ==
    \E k \in UsedChecks :
        /\ checks[k].batched /\ ~checks[k].forceUpdate
        /\ filter[1].enabled /\ filter[1].lastCheckTime = NoTime /\ filter[1].version = <<1, 1>>
        /\ SelectSeq(checks[k].io, LAMBDA e : e.what = "load-rules")
             = <<[what |-> "load-rules", id |-> 2, remote |-> <<1, 2>>, local |-> <<1, 1>>]>>

\* C9: loadFiltersFromBackend reports at most once; it reports success only
\* when no download of the batch failed and none is outstanding, and then with
\* the ids of the whole batch in the order they loaded; once a download has
\* failed the one report is the failure, without ids; and a batch whose
\* downloads have all succeeded has its report.
C9_Check(k) ==
    LET c == checks[k]
        outstanding == {r \in inflight : r.kind = "update" /\ r.cont = k}
        batchIds == {c.batch[i].id : i \in 1..Len(c.batch)}
    IN /\ Len(c.reports) <= 1
       /\ \A i \in 1..Len(c.reports) :
             c.reports[i].success =>
                /\ c.failed = {} /\ outstanding = {}
                /\ c.reports[i].ids = c.loaded
                /\ Range(c.loaded) = batchIds /\ Len(c.loaded) = Len(c.batch)
       /\ c.failed # {} => c.reports = <<[success |-> FALSE, ids |-> <<>>]>>
       /\ (c.batched /\ outstanding = {} /\ c.failed = {}) =>
             (Len(c.reports) = 1 /\ c.reports[1].success)
C9_AllOrNothing == \A k \in UsedChecks : C9_Check(k)
\* of a batch of two one download loaded and one failed, in either order, and
\* the failure was reported once
C9_FailureReportedOnce ==
    \E k \in UsedChecks :
        /\ Len(checks[k].batch) = 2
        /\ checks[k].loaded = <<1>>
        /\ checks[k].failed = {2}
        /\ checks[k].reports = <<[success |-> FALSE, ids |-> <<>>]>>
        /\ filter[1].version = <<1, 2>>

\* how often x occurs in seq
Count(seq, x) == Cardinality({i \in 1..Len(seq) : seq[i] = x})

\* C10: updateCustomFilters calls its callback at most once, not while an
\* update of the batch is outstanding and as soon as none is, with the filters
\* whose update succeeded, in the order they completed; a failed update does
\* not fail the check; and filter-add-remove is published for every filter of
\* every batch.
C10_Check(k) ==
    LET c == checks[k]
        outstanding == {q \in customReqs : q.k = k}
    IN /\ Len(c.customReports) <= 1
       /\ \A i \in 1..Len(c.customReports) :
             /\ outstanding = {}
             /\ c.customReports[i] = c.customOk
             /\ Range(c.customOk) = Range(c.customIds) \ c.customFailed
             /\ Len(c.customOk) = Cardinality(Range(c.customOk))
             /\ c.popups = <<[success |-> TRUE, updatedFilters |-> c.updated \o c.customOk,
                              forceUpdate |-> c.forceUpdate,
                              filtersUpdateLastCheck |-> c.currentDate]>>
       /\ (c.customStarted /\ outstanding = {}) => Len(c.customReports) = 1
C10_CallbackOnceWithSucceeded ==
    /\ \A k \in UsedChecks : C10_Check(k)
    /\ \A id \in CustomIds :
          Count(events[id], "filter-add-remove")
            = Cardinality({k \in UsedChecks : checks[k].customStarted
                                              /\ id \in Range(checks[k].customIds)})
\* the update of filter 4 failed and the update of filter 3 succeeded: the
\* callback got filter 3 and the check succeeded
C10_OneFailedOneUpdated ==
    \E k \in UsedChecks :
        /\ checks[k].customIds = <<3, 4>>
        /\ checks[k].customFailed = {4}
        /\ checks[k].customReports = <<(<<3>>)>>
        /\ Len(checks[k].popups) = 1 /\ checks[k].popups[1].success
        /\ Occurs(events[4], "filter-add-remove")

\* C7: the built-in ids selectFilterIdsToUpdate returns are, in the order of the
\* filters it went through (the subset, or else the registry), those of the
\* filters without a custom url that are installed and enabled and that are
\* due: the update is forced, or the filter was never checked, or its last
\* check is at least the update period ago.
C7_Due(id) ==
    \/ selected.forceUpdate
    \/ filter[id].lastCheckTime = NoTime
    \/ now - filter[id].lastCheckTime >= period * MinutesPerHour
C7_SelectsDueFilters ==
    selected.called =>
        LET candidates == IF selected.given THEN selected.list ELSE SortedSeq(cache)
        IN selected.filterIds
             = SelectSeq(candidates,
                         LAMBDA id : /\ ~filter[id].customUrl
                                     /\ filter[id].installed /\ filter[id].enabled
                                     /\ C7_Due(id))
\* without force filter 1, checked a minute less than the period ago, is left
\* out and filter 2, never checked, is taken
C7_RecentFilterLeftOut ==
    /\ selected.called /\ ~selected.forceUpdate /\ ~selected.given
    /\ period = 1
    /\ filter[1].installed /\ filter[1].enabled /\ filter[1].lastCheckTime = 41
    /\ filter[2].lastCheckTime = NoTime
    /\ selected.filterIds = <<2>>

\* C8: a call of checkFilterUpdate for a filter that is disabled, or whose last
\* check is less than the skip timeout ago, changes nothing: no request, no
\* event, no write. Any other call, of a filter never checked too, begins a
\* forced check of that filter alone: the time is written, a custom filter is
\* sent for update, an installed built-in one has its metadata requested, and
\* nothing is requested for any other filter.
C8_Skipped(id) ==
    \/ ~filter[id].enabled
    \/ /\ filter[id].lastCheckTime # NoTime
       /\ now - filter[id].lastCheckTime < ENABLED_FILTERS_SKIP_TIMEOUT
C8_Forced(k, id) ==
    /\ checks'[k].used /\ checks'[k].forceUpdate /\ checks'[k].subset = <<id>>
    /\ store' = now
    /\ inflight' = inflight
    /\ metaReqs' = IF ~filter[id].customUrl /\ filter[id].installed
                   THEN metaReqs \cup {[k |-> k, ids |-> <<id>>]}
                   ELSE metaReqs
    /\ customReqs' = IF filter[id].customUrl
                     THEN customReqs \cup {[id |-> id, k |-> k]}
                     ELSE customReqs
    /\ (~filter[id].customUrl /\ ~filter[id].installed) =>
          (Len(checks'[k].popups) = 1 /\ checks'[k].popups[1].success)
C8_Step(k, id) ==
    CheckFilterUpdate(k, id) =>
        IF C8_Skipped(id)
        THEN UNCHANGED <<events, groupEvents, inflight, metaReqs, customReqs, checks, store>>
        ELSE C8_Forced(k, id)
C8_SkipsOrForces == [][\A k \in 1..MaxChecks, id \in Ids : C8_Step(k, id)]_vars
\* a forced check of filter 1 alone has begun although its last check was only
\* the skip timeout ago
C8_ForcedCheckBegun ==
    \E k \in UsedChecks :
        /\ checks[k].forceUpdate /\ checks[k].subset = <<1>>
        /\ filter[1].lastCheckTime = 95 /\ period = 1
        /\ [k |-> k, ids |-> <<1>>] \in metaReqs

RecurringTimers == {tm \in timers : tm.recurring}
FirstCheckTimers == {tm \in timers : ~tm.recurring}

\* C11 (as stated): whatever calls of scheduleFiltersUpdate and
\* rerunAutoUpdateTimer were made and whatever timers fired, at most one
\* recurring timer is set.
C11_OneRecurringTimer == Cardinality(RecurringTimers) <= 1

\* C12 (as stated): a call of rerunAutoUpdateTimer leaves as many first-check
\* timeouts set as there were.
C12_RerunSetsNoFirstCheck ==
    [][RerunAutoUpdateTimer => Cardinality(FirstCheckTimers') = Cardinality(FirstCheckTimers)]_vars
\* what does hold of rerunAutoUpdateTimer: the timer the handle names is
\* cleared, and with a positive period one new recurring timer is set and the
\* handle names it
C12_RerunReplacesRecurring ==
    [][RerunAutoUpdateTimer =>
         /\ \A tm \in timers : tm.id = filterAutoupdateTimer => tm \notin timers'
         /\ period > 0 =>
               \E tm \in RecurringTimers' \ timers :
                  /\ tm.id = filterAutoupdateTimer'
                  /\ tm.ms = period * MinutesPerHour
                  /\ RecurringTimers' = (RecurringTimers \cap timers') \cup {tm}]_vars

\* C13: with a positive period every firing of the recurring timer sets the
\* next recurring timer, with the period the fired one had, whether the check
\* it ran returned or raised, and no exception leaves the callback; and the
\* recurring timer fires again and again.
C13_Rearms(tm, raises) ==
    RecurringTimerFires(tm, raises) =>
        /\ thrown' = thrown
        /\ \E next \in RecurringTimers' \ timers :
              /\ next.ms = tm.ms
              /\ RecurringTimers' = (RecurringTimers \ {tm}) \cup {next}
C13_KeepsRunning ==
    /\ [][\A tm \in timers, raises \in BOOLEAN : C13_Rearms(tm, raises)]_vars
    /\ []<><<\E tm \in timers, raises \in BOOLEAN : RecurringTimerFires(tm, raises)>>_vars
\* a scheduled check has raised, the error was logged, nothing escaped, and
\* the recurring timer is set
C13_RaisedAndRearmed ==
    /\ logged # {}
    /\ thrown = <<>>
    /\ RecurringTimers # {}
    /\ checks[ScheduledCheck].used

\* C14 (as stated): when removeObsoleteFilters completes, every local filter
\* without a remote filter of the same id and name is absent from the
\* persisted state and from the registry, every other local filter is left as
\* it was, and filters.json holds the remote metadata.
C14_Post(remoteMetadata) ==
    /\ snapshot' = <<remoteMetadata>>
    /\ \A f \in cleanup.local :
          IF isObsolete(f, remoteMetadata)
          THEN /\ f.filterId \notin cache'
               /\ stateInfo'[f.filterId] = Undefined
          ELSE /\ (f.filterId \in cache') = (f.filterId \in cache)
               /\ stateInfo'[f.filterId] = stateInfo[f.filterId]
               /\ filter'[f.filterId] = filter[f.filterId]
               /\ events'[f.filterId] = events[f.filterId]
C14_PostRegistry(remoteMetadata) ==
    /\ snapshot' = <<remoteMetadata>>
    /\ \A f \in cleanup.local :
          IF isObsolete(f, remoteMetadata)
          THEN /\ f.filterId \notin cache'
               /\ f.filterId \notin cache => stateInfo'[f.filterId] = Undefined
               /\ f.filterId \in cache => stateInfo'[f.filterId] = False
          ELSE /\ (f.filterId \in cache') = (f.filterId \in cache)
               /\ stateInfo'[f.filterId] = stateInfo[f.filterId]
               /\ filter'[f.filterId] = filter[f.filterId]
               /\ events'[f.filterId] = events[f.filterId]
C14_ObsoleteLeaveRegistry ==
    [][\A remoteMetadata \in Metadatas :
          RemoteFiltersMetadataLoaded(remoteMetadata) => C14_PostRegistry(remoteMetadata)]_vars

\* the events published about a filter in this step
NewEvents(id) == {events'[id][i] : i \in (Len(events[id]) + 1)..Len(events'[id])}
\* the download of an install calls back for a filter the registry has lost
StaleCompletion(r) == r.id \notin cache /\ (InstallSuccess(r) \/ InstallError(r))

\* C15 (as stated): a download that completes for a filter that removeFilter
\* took out of the registry meanwhile does not mark the removed object loaded
\* or installed and publishes no filter-add-remove and no
\* filter-enable-disable event for it.
C15_RemovedObjectUntouched ==
    [][\A r \in inflight :
          StaleCompletion(r) =>
             /\ filter'[r.id].loaded = filter[r.id].loaded
             /\ filter'[r.id].installed = filter[r.id].installed
             /\ NewEvents(r.id) \cap {"filter-add-remove", "filter-enable-disable"} = {}]_vars

\* C15, what does hold: the removed object is not enabled and no
\* filter-enable-disable event is published for it; the registry does not
\* get the filter back.
C15_RemovedObjectNotEnabled ==
    [][\A r \in inflight :
          StaleCompletion(r) =>
             /\ ~filter'[r.id].enabled
             /\ r.id \notin cache'
             /\ "filter-enable-disable" \notin NewEvents(r.id)]_vars

\* the events published about a filter in this step, in order
NewEventsSeq(id) == SubSeq(events'[id], Len(events[id]) + 1, Len(events'[id]))

\* C16: a rule download begins with the flag set and start-download
\* published; it ends once, either loaded (flag cleared; version,
\* lastUpdateTime, lastCheckTime and loaded set; success-download, then
\* update-filter-rules published) or failed (flag cleared; error-download
\* alone published; version, lastUpdateTime, lastCheckTime, loaded as before).
C16_Begins(r) ==
    /\ filter'[r.id].isDownloading
    /\ NewEventsSeq(r.id) = <<"start-download">>
C16_Loaded(r) ==
    /\ r \notin inflight'
    /\ ~filter'[r.id].isDownloading
    /\ filter'[r.id].version = r.meta.version
    /\ filter'[r.id].lastUpdateTime = r.meta.timeUpdated
    /\ filter'[r.id].lastCheckTime = now
    /\ filter'[r.id].loaded
    /\ NewEventsSeq(r.id) = <<"success-download", "update-filter-rules">>
C16_Failed(r) ==
    /\ r \notin inflight'
    /\ ~filter'[r.id].isDownloading
    /\ filter'[r.id].version = filter[r.id].version
    /\ filter'[r.id].lastUpdateTime = filter[r.id].lastUpdateTime
    /\ filter'[r.id].lastCheckTime = filter[r.id].lastCheckTime
    /\ filter'[r.id].loaded = filter[r.id].loaded
    /\ NewEventsSeq(r.id) = <<"error-download">>
C16_OneOutcomeEach ==
    \A id \in Ids :
        Count(events[id], "start-download") =
            Count(events[id], "success-download") + Count(events[id], "error-download")
            + Cardinality({r \in inflight : r.id = id})
C16_DownloadLifecycle ==
    /\ []C16_OneOutcomeEach
    /\ [][/\ \A r \in inflight' \ inflight : C16_Begins(r)
          /\ \A r \in inflight : RulesLoaded(r) => C16_Loaded(r)
          /\ \A r \in inflight : RulesError(r) => C16_Failed(r)]_vars
\* one download has brought a newer version, another has failed
C16_OneLoadedOneFailed ==
    \E id1 \in Ids, id2 \in Ids :
        /\ Occurs(events[id1], "success-download")
        /\ filter[id1].version = <<1, 2>>
        /\ filter[id1].lastUpdateTime = TimeUpdatedOf(<<1, 2>>)
        /\ Occurs(events[id2], "error-download")
        /\ filter[id2].lastUpdateTime = TimeUpdatedOf(<<1, 1>>)

\* C17: in every state reached by addAndEnableFilters, enableAndUpdateFilter,
\* disableFilters, removeFilter and the completions of downloads, in any
\* order, an enabled filter is installed; and the failure of an install does
\* not enable the filter.
C17_EnabledIsInstalled == \A id \in Ids : filter[id].enabled => filter[id].installed
C17_FailureEnablesNothing ==
    \A r \in inflight :
        (InstallError(r) \/ EnableError(r)) =>
            /\ filter'[r.id].enabled = filter[r.id].enabled
            /\ filter'[r.id].installed = filter[r.id].installed
            /\ "filter-enable-disable" \notin NewEvents(r.id)
C17_EnabledImpliesInstalled ==
    /\ []C17_EnabledIsInstalled
    /\ [][C17_FailureEnablesNothing]_vars
\* an install has failed and left its filter as it was, another has gone
\* through and its filter is enabled
C17_OneFailedOneEnabled ==
    \E id1 \in Ids, id2 \in Ids :
        /\ Occurs(events[id1], "error-download")
        /\ ~filter[id1].enabled
        /\ ~filter[id1].installed
        /\ Occurs(events[id2], "filter-add-remove")
        /\ Occurs(events[id2], "filter-enable-disable")
        /\ filter[id2].enabled
        /\ filter[id2].installed

\* C18: enableGroup and disableGroup are idempotent. A call that finds the
\* group already in the state it asks for, or finds no group, changes nothing
\* and publishes nothing; in every step, whatever calls enableGroup, one
\* filter-group-enable-disable event is published for a group whose flag
\* changes and none for a group whose flag stays.
C18_EventIffChange ==
    \A g \in GroupIds :
        Len(groupEvents'[g]) = Len(groupEvents[g]) + (IF groups'[g] # groups[g] THEN 1 ELSE 0)
C18_Enable(g) ==
    /\ g \in GroupIds => groups'[g] = True
    /\ (g \notin GroupIds \/ groups[g] = True) => UNCHANGED <<groups, groupEvents, events>>
C18_Disable(g) ==
    /\ (g \in GroupIds /\ groups[g] = True) => groups'[g] = False
    /\ (g \notin GroupIds \/ groups[g] # True) => UNCHANGED <<groups, groupEvents, events>>
C18_GroupCallsIdempotent ==
    [][/\ C18_EventIffChange
       /\ \A g \in GroupArgs : EnableGroup(g) => C18_Enable(g)
       /\ \A g \in GroupArgs : DisableGroup(g) => C18_Disable(g)]_vars
\* the group was disabled by a first disableGroup call, which published the
\* one event there is, and a second disableGroup call has published nothing
C18_SecondDisableSilent ==
    /\ lastCall.op = "disableGroup"
    /\ ~lastCall.absent
    /\ lastCall.published = 0
    /\ ops = 2
    /\ groups[1] = False
    /\ groupEvents[1] = <<"filter-group-enable-disable">>
    /\ \A id \in Ids : events[id] = <<>>

\* what a handler leaves, but for the record of the last call
Effects(S) == [S EXCEPT !.lastCall = NoCall]

\* C19: disableFilters is idempotent. In every state, calling it a second
\* time with the same ids leaves what the first call left and publishes
\* nothing more; and a call for a filter that is not enabled changes nothing.
C19_SecondCallChangesNothing ==
    \A filterIds \in DisableLists :
        LET S1 == disableFilters(Cur, filterIds)
            S2 == disableFilters(S1, filterIds)
        IN /\ Effects(S2) = Effects(S1)
           /\ S2.lastCall.published = 0
C19_DisabledStaysSilent ==
    \A id \in BuiltinIds :
        (DisableFilters(<<id>>) /\ ~filter[id].enabled) =>
            UNCHANGED <<cache, filter, stateInfo, events, groups, groupEvents>>
RECURSIVE EnabledPrefix(_, _)
EnabledPrefix(filterIds, i) ==
    IF i > Len(filterIds) \/ ~isFilterEnabled(Cur, filterIds[i]) THEN i - 1
    ELSE EnabledPrefix(filterIds, i + 1)

\* C20: disableFilters goes through the ids, duplicates dropped, in order and
\* stops at the first one that is not enabled or not registered: the ids
\* before it are disabled with one event each, that id and every id after it
\* keep their flag and get no event, enabled or not.
C20_Post(filterIds) ==
    LET ids == removeDuplicates(filterIds)
        n == EnabledPrefix(ids, 1)
    IN /\ \A j \in 1..n :
            /\ ~filter'[ids[j]].enabled
            /\ stateInfo'[ids[j]] = False
            /\ NewEventsSeq(ids[j]) = <<"filter-enable-disable">>
       /\ \A j \in (n + 1)..Len(ids) :
            /\ filter'[ids[j]] = filter[ids[j]]
            /\ stateInfo'[ids[j]] = stateInfo[ids[j]]
            /\ events'[ids[j]] = events[ids[j]]
       /\ lastCall'.published = n
C20_StopsAtFirstNotEnabled ==
    [][\A filterIds \in DisableLists : DisableFilters(filterIds) => C20_Post(filterIds)]_vars
\* the one call made was for two filters, it published nothing, and one of
\* the two is enabled still
C20_EnabledFilterLeft ==
    /\ ops = 1
    /\ lastCall.op = "disableFilters"
    /\ ~lastCall.single
    /\ lastCall.published = 0
    /\ cache = {1, 2}
    /\ \E id \in BuiltinIds : filter[id].enabled /\ stateInfo[id] = True

\* the step starts an install, or changes or publishes something about a filter
TouchesFilters ==
    \/ filter' # filter
    \/ events' # events
    \/ inflight' # inflight
    \/ stateInfo' # stateInfo

\* C21: enableFiltersGroup adds and enables the recommended filters of the
\* group only when the group's flag is undefined, and then leaves the flag
\* true; a flag that is set never becomes undefined again, so this happens at
\* most once. Any other enableFiltersGroup call, one after
\* disableFiltersGroup too, sets the flag and touches no filter;
\* disableFiltersGroup touches no filter.
C21_Enable(g) ==
    /\ TouchesFilters => (g \in GroupIds /\ groups[g] = Undefined /\ groups'[g] = True)
    /\ (g \in GroupIds /\ groups[g] # Undefined) => groups'[g] = True
    /\ (g \in GroupIds /\ groups[g] = Undefined /\ thrown' = thrown) =>
          /\ groups'[g] = True
          /\ chains'[NextChain].status # "unused"
C21_RecommendedOnFirstEnable ==
    [][/\ \A g \in GroupArgs, recommendedFiltersIds \in EnableLists :
             EnableFiltersGroup(g, recommendedFiltersIds) => C21_Enable(g)
       /\ \A g \in GroupArgs : DisableFiltersGroup(g) => ~TouchesFilters
       /\ \A g \in GroupIds : groups[g] # Undefined => groups'[g] # Undefined]_vars
\* the first enableFiltersGroup call has begun to add the recommended
\* filters, the second has begun nothing and published nothing
C21_SecondEnableAddsNothing ==
    /\ ops = 2
    /\ lastCall.op = "enableFiltersGroup"
    /\ ~lastCall.absent
    /\ lastCall.published = 0
    /\ chains[1].status # "unused"
    /\ chains[1].given # <<>>
    /\ chains[2].status = "unused"
    /\ groups[1] = True

\* the step begins a forced update check of the filter alone and requests its metadata
CheckBegun(id) ==
    \E k \in 1..MaxChecks :
        /\ ~checks[k].used
        /\ checks'[k].used /\ checks'[k].forceUpdate /\ checks'[k].subset = <<id>>
        /\ [k |-> k, ids |-> <<id>>] \in metaReqs' \ metaReqs
\* the step begins no update check
NoCheckBegun == UNCHANGED <<checks, metaReqs, customReqs, store>>
\* the step in which the install of enableAndUpdateFilter(id) succeeds: at
\* once for a filter that is installed or loaded, else when its download does
InstallSucceeds(id) ==
    \/ EnableAndUpdateFilter(id) /\ id \in cache /\ (filter[id].installed \/ filter[id].loaded)
    \/ \E r \in inflight : r.id = id /\ EnableSuccess(r)
InstallFails(id) == \E r \in inflight : r.id = id /\ EnableError(r)
\* checkFilterUpdate finds the filter checked within the skip timeout
CheckedOfLate(id) ==
    /\ filter'[id].lastCheckTime # NoTime
    /\ now - filter'[id].lastCheckTime < ENABLED_FILTERS_SKIP_TIMEOUT

\* C22 (as stated): when the install of enableAndUpdateFilter(id) succeeds the
\* filter is enabled and, unless it is a custom filter, an update check of
\* that filter alone begins with a metadata request; when the install fails
\* the filter is not enabled and no check begins.
C22_EnablesThenChecks ==
    [][\A id \in Ids :
          /\ InstallSucceeds(id) =>
                /\ filter'[id].enabled
                /\ IF filter[id].customUrl THEN NoCheckBegun ELSE CheckBegun(id)
          /\ InstallFails(id) =>
                /\ filter'[id].enabled = filter[id].enabled
                /\ NoCheckBegun]_vars

\* C22 (amended): when the install of enableAndUpdateFilter(id) succeeds the
\* filter is enabled; an update check of that filter alone begins only for a
\* filter that is not custom and was not checked within the skip timeout, so
\* never for a filter whose rules the install has just downloaded; when the
\* install fails the filter is not enabled and no check begins.
C22_EnablesThenChecksUnlessRecent ==
    [][\A id \in Ids :
          /\ InstallSucceeds(id) =>
                /\ filter'[id].enabled
                /\ IF filter[id].customUrl \/ CheckedOfLate(id)
                   THEN NoCheckBegun ELSE CheckBegun(id)
          /\ (\E r \in inflight : r.id = id /\ EnableSuccess(r)) => NoCheckBegun
          /\ InstallFails(id) =>
                /\ filter'[id].enabled = filter[id].enabled
                /\ NoCheckBegun]_vars
\* the rules of filter 1 were downloaded for enableAndUpdateFilter, the filter
\* is enabled, and no update check was begun
C22_DownloadedEnabledUnchecked ==
    /\ Occurs(events[1], "success-download")
    /\ Occurs(events[1], "filter-enable-disable")
    /\ filter[1].enabled
    /\ filter[1].lastCheckTime = now
    /\ \A k \in 1..MaxChecks : ~checks[k].used
    /\ ops = 1

\* enabling this filter enables its group whatever the group's flag
ForcesGroup(id) ==
    \/ id = SEARCH_AND_SELF_PROMO_FILTER_ID
    \/ filter[id].groupId = CUSTOM_FILTERS_GROUP_ID
\* C23: enableFilter(id) on a registered filter leaves its group enabled
\* exactly when the group was never toggled, or the filter is the search and
\* self-promotion filter, or the group is the group of the custom filters,
\* publishing one group event when the group was not enabled before; for any
\* other filter a group that was explicitly disabled stays disabled and no
\* group event is published.
C23_GroupEnabledWithFilter ==
    [][\A id \in Ids :
          (EnableFilter(id) /\ id \in cache) =>
             LET g == filter[id].groupId
             IN /\ filter'[id].enabled
                /\ \A h \in GroupIds \ {g} :
                      groups'[h] = groups[h] /\ groupEvents'[h] = groupEvents[h]
                /\ IF groups[g] = Undefined \/ ForcesGroup(id)
                   THEN /\ groups'[g] = True
                        /\ groupEvents'[g] =
                              IF groups[g] = True THEN groupEvents[g]
                              ELSE Append(groupEvents[g], "filter-group-enable-disable")
                   ELSE /\ groups'[g] = groups[g]
                        /\ groupEvents'[g] = groupEvents[g]]_vars
\* an ordinary filter was enabled while its group was disabled: the group is
\* still disabled and nothing was published for it; then the search and
\* self-promotion filter of the same group was enabled and the group with it
C23_DisabledGroupKeptThenForced ==
    /\ ops = 2
    /\ filter[1].enabled /\ filter[2].enabled
    /\ Occurs(events[1], "filter-enable-disable")
    /\ Occurs(events[2], "filter-enable-disable")
    /\ groups[1] = True
    /\ groupEvents[1] = <<"filter-group-enable-disable">>
    /\ groups[CUSTOM_FILTERS_GROUP_ID] = False

\* C24: the isDownloading flag of a filter is set whenever at least one rule
\* download of that filter is in flight, also when two downloads of the same
\* filter overlap.
C24_FlagWhileInFlight ==
    \A r \in inflight : filter[r.id].isDownloading

\* the step publishes the failure popup of check k
C25_FailurePopup(k) ==
    /\ Len(checks'[k].popups) = Len(checks[k].popups) + 1
    /\ ~checks'[k].popups[Len(checks'[k].popups)].success
    /\ checks'[k].popups[Len(checks'[k].popups)].updatedFilters = <<>>
\* C25: the first built-in download of an update cycle that fails publishes
\* the failure popup in that step, whether or not other downloads of the
\* cycle are pending; a download of the cycle that succeeds after the popup
\* still sets the filter's version, lastCheckTime and loaded and publishes
\* success-download and update-filter-rules, publishes no further popup, and
\* changes no other filter: nothing is rolled back.
C25_PopupAtFirstFailure ==
    [][\A r \in inflight :
          /\ RulesError(r) =>
                IF checks[r.cont].rejected
                THEN checks'[r.cont].popups = checks[r.cont].popups
                ELSE C25_FailurePopup(r.cont)
          /\ (RulesLoaded(r) /\ checks[r.cont].rejected) =>
                /\ filter'[r.id].version = r.meta.version
                /\ filter'[r.id].lastCheckTime = now
                /\ filter'[r.id].loaded
                /\ NewEventsSeq(r.id) = <<"success-download", "update-filter-rules">>
                /\ checks'[r.cont].popups = checks[r.cont].popups
                /\ \A id \in Ids \ {r.id} : filter'[id] = filter[id]]_vars
\* of a batch of two, the download of filter 2 failed while that of filter 1
\* was pending and the failure popup was published; the download of filter 1
\* then brought the newer version, and the popup is still the only one
C25_LoadedAfterFailurePopup ==
    \E k \in UsedChecks :
        /\ Len(checks[k].batch) = 2
        /\ checks[k].failed = {2}
        /\ checks[k].loadedAtFailure = <<>>
        /\ checks[k].loaded = <<1>>
        /\ filter[1].version = <<1, 2>>
        /\ filter[1].loaded
        /\ Occurs(events[1], "update-filter-rules")
        /\ Len(checks[k].popups) = 1
        /\ ~checks[k].popups[1].success

\* check k has called updateCustomFilters or has asked for the update of a custom filter
C26_CustomAttempted(k) ==
    \/ checks[k].customStarted
    \/ checks[k].customPending # {}
    \/ checks[k].customOk # <<>>
    \/ checks[k].customFailed # {}
    \/ \E q \in customReqs : q.k = k
    \/ \E i \in 1..Len(checks[k].io) : checks[k].io[i].what = "update-custom"
C26_Check(k) ==
    LET c == checks[k]
        outstanding == {r \in inflight : r.kind = "update" /\ r.cont = k}
    IN /\ C26_CustomAttempted(k) =>
             /\ ~c.metaFailed
             /\ \A q \in metaReqs : q.k # k
             /\ c.batched
             /\ c.failed = {} /\ c.pending = {} /\ outstanding = {}
             /\ Len(c.loaded) = Len(c.batch)
             /\ c.reports = <<[success |-> TRUE, ids |-> c.loaded]>>
       /\ (c.metaFailed \/ c.failed # {}) => ~C26_CustomAttempted(k)
       /\ (c.batched /\ c.failed = {} /\ outstanding = {}) => c.customStarted
\* C26: in an update cycle the custom filters are updated only when the
\* metadata request has succeeded and every built-in download of the cycle
\* has succeeded, and then they are; when the metadata request or any built-in
\* download has failed no custom filter update is attempted, and no custom
\* filter gets a filter-add-remove event otherwise.
C26_CustomAfterBuiltins ==
    /\ \A k \in UsedChecks : C26_Check(k)
    /\ \A id \in CustomIds :
          Occurs(events[id], "filter-add-remove") =>
             \E k \in UsedChecks : checks[k].customStarted /\ Occurs(checks[k].customIds, id)
\* a built-in download of the cycle has brought a newer version, and after it
\* the update of a custom filter was asked for and is pending
C26_CustomStartedAfterDownload ==
    \E k \in UsedChecks :
        /\ checks[k].loaded = <<1>>
        /\ filter[1].version = <<1, 2>>
        /\ checks[k].customStarted
        /\ \E q \in customReqs : q.k = k /\ q.id \in CustomIds
        /\ \E id \in CustomIds : Occurs(events[id], "filter-add-remove")

\* the built-in filters of the list that are installed and enabled, in the list's order
C27_InstalledEnabled(filtersToUpdate) ==
    SelectSeq(IF filtersToUpdate.given THEN filtersToUpdate.list ELSE getFilters(Cur),
              LAMBDA id : filter[id].installed /\ filter[id].enabled /\ ~filter[id].customUrl)
\* what the same check would do when forced
C27_Forced(k) == checkAntiBannerFiltersUpdate(Cur, k, TRUE, AllFilters, now, period)
\* C27: while the update period is zero or negative, a non-forced
\* selectFilterIdsToUpdate selects every installed and enabled built-in filter
\* of its list whatever the filter's lastCheckTime, as a forced one does; a
\* non-forced update check asks for the same metadata and custom updates as a
\* forced one; and scheduleFiltersUpdate and rerunAutoUpdateTimer arm no
\* recurring timer.
C27_NoPeriodSelectsAll ==
    [][period <= 0 =>
          /\ \A filtersToUpdate \in OffSubsets :
                SelectFilterIdsToUpdate(FALSE, filtersToUpdate) =>
                   /\ selected'.filterIds = C27_InstalledEnabled(filtersToUpdate)
                   /\ selected'.filterIds =
                         selectFilterIdsToUpdate(Cur, TRUE, filtersToUpdate, now, period).filterIds
                   /\ selected'.customFilterIds =
                         selectFilterIdsToUpdate(Cur, TRUE, filtersToUpdate, now, period).customFilterIds
          /\ \A k \in 1..MaxChecks :
                CheckAntiBannerFiltersUpdate(k, FALSE) =>
                   /\ metaReqs' = C27_Forced(k).metaReqs
                   /\ customReqs' = C27_Forced(k).customReqs
                   /\ checks'[k].customIds = C27_Forced(k).checks[k].customIds
                   /\ Len(checks'[k].popups) = Len(C27_Forced(k).checks[k].popups)
          /\ ((\E isFirstRun \in BOOLEAN : ScheduleFiltersUpdate(isFirstRun))
                \/ RerunAutoUpdateTimer) =>
                   /\ \A tm \in timers' \ timers : ~tm.recurring
                   /\ filterAutoupdateTimer' = filterAutoupdateTimer]_vars
\* with a period that is not positive the update was scheduled: only the
\* first-check timer is armed; and a non-forced selection took filter 1, which
\* was checked this very minute
C27_CheckedNowSelectedNoTimer ==
    /\ period <= 0
    /\ ops >= 1
    /\ timers # {}
    /\ \A tm \in timers : ~tm.recurring
    /\ selected.called /\ ~selected.forceUpdate
    /\ filter[1].lastCheckTime = now
    /\ Occurs(selected.filterIds, 1)

====
